---- MODULE Spec2Model ----
(***************************************************************************)
(* Model of the TSE-Muffin scheduler: the persisted rounds and groups, the *)
(* JobRunner loop with its five periodic jobs, the reaction handler, and   *)
(* the IntervalTimer.                                                      *)
(*                                                                         *)
(* Every `await` of the TypeScript code is a suspension point.  The job    *)
(* runner is split at the awaits that matter for interleaving: one action  *)
(* per query and one action per processed item (round or group).  External *)
(* calls (Slack, MongoDB) have nondeterministic outcomes: a Result.Ok, a   *)
(* Result.Err, or a thrown exception (catchWrapper rethrows everything     *)
(* that is not a Slack response; mongoose rejects on a store error).       *)
(***************************************************************************)
EXTENDS Integers, Sequences, FiniteSets, TLC

(***************************************************************************)
(* Bounds of the model.                                                    *)
(***************************************************************************)
MaxTime == 1        \* the clock runs over 0..MaxTime
MaxFaults == 1      \* failing external calls over a whole run
MaxWaits == 3       \* calls to IntervalTimer.wait()
MaxReloads == 2     \* calls to ConfigCacheProvider.reload()
MaxUsers == 5       \* users passed to makeGroups
MaxGroups == 3      \* groups in the store when the summary job runs
MaxCommands == 3    \* round_schedule and round_repeat commands run
MaxClock == 6       \* clock of the IntervalTimer specification
MaxLen == 4         \* characters of an argument of parseDuration
MaxReactions == 3   \* reactions given to addReactions

(***************************************************************************)
(* Values.                                                                 *)
(***************************************************************************)
NULL == 0                       \* an unset optional field (undefined/null)
BOT_USER_ID == 100              \* env.BOT_USER_ID
RoundChannels == {1, 2}         \* channel ids of the matched channels
\* The round_schedule commands issued during a run, in this order: channel,
\* start instant and the reminder, final and summary delays.
RoundRequests ==
    <<[channel |-> 1, start |-> 0, durationSec |-> 1, delays |-> <<0, 1, 1>>],
      [channel |-> 2, start |-> 1, durationSec |-> 1, delays |-> <<0, 0, 0>>]>>
\* What conversations.members can return for a channel: channel 1 has two
\* users besides the bot or the bot only, channel 2 has the bot only.
MemberChoices(channel) ==
    IF channel = 1 THEN {<<100>>, <<1, 100, 2>>} ELSE {<<100>>}
GROUP_STATUSES == {"unknown", "met", "did_not_meet", "scheduled"}
Reactions == {"white_check_mark", "calendar", "x", "cupcake", "constructor"}

VARIABLES
    now,          \* Date.now(), in abstract time units
    rounds,       \* RoundModel collection: sequence of Round documents
    groups,       \* GroupModel collection: sequence of Group documents
    pc,           \* JobRunner.run: idle (in timer.wait), jobs, ending,
                  \* reloading (in reload) or crashed (run() rejected)
    jobIdx,       \* index into allJobs of the job being run
    jobPc,        \* position inside job.run(): start, rounds or groups
    roundQueue,   \* rounds returned by the job's query, not yet processed
    curRound,     \* round of the current loop iteration (NULL: none yet)
    groupQueue,   \* group documents returned by GroupModel.find, not yet sent
    errored,      \* the job's `errored` flag
    faults,       \* number of failing external calls so far
    attempted,    \* history: jobs whose run() was called in this tick
    results,      \* history: how each job of this tick ended
    tickLog,      \* history: attempts of the last job of this tick to make any
    skipped,      \* history: due items abandoned by the jobs of this tick
    failedDispatch, \* history: <<job, group>> whose last dispatch returned Err
    timerStart,   \* IntervalTimer.startMs
    timerInterval,\* IntervalTimer.intervalMs
    waitCount,    \* IntervalTimer.waitCount
    clock,        \* Date.now() of the timer specification
    sleeping,     \* pending sleeps of wait(): set of [call, until]
    deadlines,    \* history: sleepUntilMs computed by each call, in call order
    resolvedAt,   \* history: call |-> clock at which its wait() resolved
    calledAt,     \* history: clock at which each call of wait() was made
    createdAt,    \* history: clock at which the timer was constructed
    dbInterval,   \* ConfigModel: the stored periodicJobIntervalSec
    loads,        \* the promises made by ConfigCacheProvider.load, in order
    loadingPromise, \* ConfigCacheProvider.loadingPromise: index in loads
    reloads,      \* history: number of reload() calls so far
    lastGet,      \* history: what the last get() call found and returned
    reloadPending,  \* JobRunner.reloadPending
    firstRunResolved, \* whether JobRunner.firstRun is resolved
    runnerPromise, \* the promise getTimer awaits in JobRunner.reload
    matchUsers,   \* makeGroups: the users argument
    matchHistory, \* makeGroups: the prevGroups argument
    matchCalled,  \* makeGroups: whether the call was made
    matchResult,  \* makeGroups: the value returned
    cmdCount,     \* history: number of round commands run in the shell
    lastCmd,      \* history: the last round command, its arguments and result
    lastReaction, \* history: the last reaction event and what the handler did
    durationInput,  \* parseDuration: the argument, a sequence of characters
    parsed,         \* parseDuration has returned
    durationResult, \* parseDuration: the Result returned
    rxInput,        \* addReactions: the reactions argument
    rxAttempts,     \* history: the calls of addReaction and their responses
    rxLines,        \* addReactions: the local `lines`
    rxReturn        \* addReactions: idle, running, or how it returned

\* The runner has yielded to the event loop: it is suspended in an await of
\* a job or of timer.wait().  It does not yield between the return of the
\* last job and its call of timer.wait(), so nothing else runs in between.
Yielded == pc /= "ending"

storeVars == <<rounds, groups>>
runnerVars == <<pc, jobIdx, jobPc, roundQueue, curRound, groupQueue, errored>>
histVars == <<attempted, results, tickLog, skipped, failedDispatch>>
schedVars == <<now, storeVars, runnerVars, faults, histVars>>
timerVars == <<timerStart, timerInterval, waitCount, clock, sleeping,
               deadlines, resolvedAt, calledAt, createdAt>>
cacheVars == <<dbInterval, loads, loadingPromise, reloads, lastGet>>
cfgVars == <<cacheVars, reloadPending, firstRunResolved, runnerPromise>>
pairVars == <<matchUsers, matchHistory, matchCalled, matchResult>>
cmdVars == <<cmdCount, lastCmd>>
evtVars == <<lastReaction>>
parseVars == <<durationInput, parsed, durationResult>>
rxVars == <<rxInput, rxAttempts, rxLines, rxReturn>>
utilVars == <<parseVars, rxVars>>
vars == <<schedVars, timerVars, cfgVars, pairVars, cmdVars, evtVars, utilVars>>

(***************************************************************************)
(* Generic helpers.                                                        *)
(***************************************************************************)
Range(s) == {s[i] : i \in DOMAIN s}

Ids(s) == [i \in 1..Len(s) |-> i]

Swap(s, i, j) == [s EXCEPT ![i] = s[j], ![j] = s[i]]

RECURSIVE Pow2(_)
Pow2(n) == IF n = 0 THEN 1 ELSE 2 * Pow2(n - 1)

RECURSIVE SumPow2(_)
SumPow2(S) ==
    IF S = {} THEN 0
    ELSE LET x == CHOOSE y \in S : TRUE IN Pow2(x) + SumPow2(S \ {x})

(***************************************************************************)
(* Slack: the direct message channel of a set of users is a function of    *)
(* that set only.  The timestamp Slack gives a message identifies it; the  *)
(* store keeps at most one timestamp per phase and item, so the job and    *)
(* the item name the stored message.                                       *)
(***************************************************************************)
Timestamp(j, item) == 10 * j + item

\* chat.postMessage never gives two messages of a conversation the same
\* timestamp: a message posted for an item whose identifier is already stored
\* gets a later timestamp than the stored one.
PostedTimestamp(j, item, stored) ==
    IF stored = NULL THEN Timestamp(j, item) ELSE stored + 100

DmChannel(userIds) == 10 + SumPow2(Range(userIds))

\* The messages a reaction event can name, as <<channel, timestamp>>: the
\* messages the bot has sent to the groups and to the matched channels.
Messages ==
    {m \in UNION {{<<groups[g].channel, groups[g].initialMessageTimestamp>>,
                    <<groups[g].channel, groups[g].reminderMessageTimestamp>>,
                    <<groups[g].channel, groups[g].finalMessageTimestamp>>} :
                   g \in DOMAIN groups}
          \cup {<<rounds[r].channel, rounds[r].summaryMessageTimestamp>> :
                   r \in DOMAIN rounds} :
        m[2] /= NULL}

(***************************************************************************)
(* services/round.ts: createRound.                                         *)
(***************************************************************************)
NewRound(channel, start, durationSec, reminderDelay, finalDelay, summaryDelay) ==
    [channel |-> channel,
     durationSec |-> durationSec,
     matchingScheduledFor |-> start,
     matchingCompleted |-> FALSE,
     allInitialMessagesSent |-> FALSE,
     reminderMessageScheduledFor |-> start + reminderDelay,
     allReminderMessagesSent |-> FALSE,
     finalMessageScheduledFor |-> start + finalDelay,
     allFinalMessagesSent |-> FALSE,
     summaryMessageScheduledFor |-> start + summaryDelay,
     summaryMessageTimestamp |-> NULL]

\* The next command of RoundRequests; it is accepted when its start is not
\* in the past (RoundScheduleCommand.determineStartDate).
CreateRound ==
    /\ Yielded
    /\ Len(rounds) < Len(RoundRequests)
    /\ LET req == RoundRequests[Len(rounds) + 1]
       IN  /\ req.start >= now
           /\ rounds' = Append(rounds, NewRound(req.channel, req.start,
                             req.durationSec,
                             req.delays[1], req.delays[2], req.delays[3]))
    /\ UNCHANGED <<now, groups, runnerVars, faults, histVars, timerVars, cfgVars>>
    /\ UNCHANGED pairVars
    /\ UNCHANGED cmdVars
    /\ UNCHANGED evtVars
    /\ UNCHANGED utilVars

(***************************************************************************)
(* shell/commands.ts and services/round.ts: the round_schedule and         *)
(* round_repeat commands.  Dates and durations are in seconds.             *)
(***************************************************************************)
ABSENT == -1                   \* an optional argument that is not given
Instants == {0, 2, 20}          \* instants at which a command is run

StartArgs == {1, 3}
DurationArgs == {14, 1209600}   \* "14s" and "14d"
DelayArgs == {<<ABSENT, ABSENT, ABSENT>>, <<3, 1, 2>>, <<1, ABSENT, 3>>}

\* Variant: the default delay is the whole duration, whatever the factor.
DefaultDelayWhole(num, den, durationSec) == durationSec

\* Duration.fromObject({ seconds: factor * seconds }) for the factor
\* num / den.  The durations drawn are multiples of 14 seconds, for which
\* the three default delays are whole numbers of seconds.
DefaultDelay(num, den, durationSec) == (durationSec * num) \div den

\* getDelayResult: the parsed argument when it is given, else the default.
getDelayResult(input, num, den, durationSec) ==
    IF input /= ABSENT THEN input
    ELSE DefaultDelay(num, den, durationSec)

\* Variant: no start date is refused.
NeverInPast(start, nowMs) == FALSE

\* determineStartDate: `parseResult.value.toMillis() < Date.now()`.
StartInPast(start, nowMs) == start < nowMs

Cmd(cmd, channel, start, durationSec, delays, prev, ok) ==
    [cmd |-> cmd, channel |-> channel, start |-> start,
     durationSec |-> durationSec, delays |-> delays, prev |-> prev,
     at |-> now, ok |-> ok]

\* RoundScheduleCommand.run with well-formed arguments.
RoundSchedule ==
    /\ cmdCount < MaxCommands
    /\ cmdCount' = cmdCount + 1
    /\ \E channel \in RoundChannels, start \in StartArgs,
          durationSec \in DurationArgs, delays \in DelayArgs :
         LET ok == ~StartInPast(start, now)
         IN  /\ lastCmd' = Cmd("round_schedule", channel, start, durationSec,
                               delays, NULL, ok)
             /\ rounds' =
                  IF ok
                  THEN Append(rounds,
                         NewRound(channel, start, durationSec,
                           getDelayResult(delays[1], 1, 2, durationSec),
                           getDelayResult(delays[2], 1, 1, durationSec),
                           getDelayResult(delays[3], 16, 14, durationSec)))
                  ELSE rounds
    /\ UNCHANGED <<now, groups, runnerVars, faults, histVars, timerVars,
                   cfgVars, pairVars, evtVars, utilVars>>

\* Variant: the round created first in the channel is the one repeated.
OldestRounds(channel) ==
    LET inChannel == {r \in DOMAIN rounds : rounds[r].channel = channel}
    IN  {r \in inChannel : \A q \in inChannel : r <= q}

\* repeatRound: findOne sorted by matchingScheduledFor, descending.  Rounds
\* with the same start are returned in no specified order.
PrevRounds(channel) ==
    LET inChannel == {r \in DOMAIN rounds : rounds[r].channel = channel}
    IN  {r \in inChannel :
            \A q \in inChannel :
                rounds[q].matchingScheduledFor <= rounds[r].matchingScheduledFor}

shiftDate(date, durationSec) == date + durationSec

RepeatedRound(channel, prev) ==
    [channel |-> channel,
     durationSec |-> prev.durationSec,
     matchingScheduledFor |->
         shiftDate(prev.matchingScheduledFor, prev.durationSec),
     matchingCompleted |-> FALSE,
     allInitialMessagesSent |-> FALSE,
     reminderMessageScheduledFor |->
         shiftDate(prev.reminderMessageScheduledFor, prev.durationSec),
     allReminderMessagesSent |-> FALSE,
     finalMessageScheduledFor |->
         shiftDate(prev.finalMessageScheduledFor, prev.durationSec),
     allFinalMessagesSent |-> FALSE,
     summaryMessageScheduledFor |->
         shiftDate(prev.summaryMessageScheduledFor, prev.durationSec),
     summaryMessageTimestamp |-> NULL]

\* RoundRepeatCommand.run and repeatRound.
RoundRepeat ==
    /\ cmdCount < MaxCommands
    /\ cmdCount' = cmdCount + 1
    /\ \E channel \in RoundChannels :
         \/ \* RoundModel.findOne throws
            /\ faults < MaxFaults
            /\ faults' = faults + 1
            /\ lastCmd' = Cmd("round_repeat", channel, NULL, NULL, NULL,
                              NULL, FALSE)
            /\ UNCHANGED rounds
         \/ \* no previous round
            /\ PrevRounds(channel) = {}
            /\ lastCmd' = Cmd("round_repeat", channel, NULL, NULL, NULL,
                              NULL, FALSE)
            /\ UNCHANGED <<rounds, faults>>
         \/ \E p \in PrevRounds(channel) :
              LET round == RepeatedRound(channel, rounds[p])
                  ok == ~(round.matchingScheduledFor < now)
              IN  /\ lastCmd' = Cmd("round_repeat", channel, NULL, NULL,
                                    NULL, p, ok)
                  /\ rounds' = IF ok THEN Append(rounds, round) ELSE rounds
                  /\ UNCHANGED faults
    /\ UNCHANGED <<now, groups, runnerVars, histVars, timerVars, cfgVars,
                   pairVars, evtVars, utilVars>>

\* Time passes between two commands.
CmdClock ==
    /\ \E t \in Instants :
         /\ t > now
         /\ \A u \in Instants : u > now => t <= u
         /\ now' = t
    /\ UNCHANGED <<storeVars, runnerVars, faults, histVars, timerVars,
                   cfgVars, pairVars, cmdVars, evtVars, utilVars>>

(***************************************************************************)
(* services/round.ts: the pairing engine.  Math.random() is a              *)
(* nondeterministic choice, so every function returns the set of its       *)
(* possible results.                                                       *)
(***************************************************************************)
Iterations == 20
HistoryLimit == 50

RECURSIVE ShuffleFrom(_, _)
ShuffleFrom(values, size) ==
    IF size <= 1 THEN {values}
    ELSE UNION {ShuffleFrom(Swap(values, size, j), size - 1) : j \in 1..size}

shuffled(values) == ShuffleFrom(values, Len(values))

PrevPairs(prevGroups) ==
    UNION {{<<g.userIds[p[1]], g.userIds[p[2]]>> :
               p \in {q \in (DOMAIN g.userIds) \X (DOMAIN g.userIds) :
                         q[1] /= q[2]}} :
           g \in prevGroups}

\* Variant: the swap writes users[dest] over users[src] and loses users[src].
RECURSIVE ScanPairsNoTemp(_, _, _)
ScanPairsNoTemp(users, i, prevPairs) ==
    IF i + 1 > Len(users) THEN {users}
    ELSE IF <<users[i], users[i + 1]>> \in prevPairs
         THEN UNION {ScanPairsNoTemp([users EXCEPT ![src] = users[dest]],
                                     i + 2, prevPairs) :
                        src \in {i, i + 1}, dest \in 1..Len(users)}
         ELSE ScanPairsNoTemp(users, i + 2, prevPairs)

RECURSIVE ScanPairs(_, _, _)
ScanPairs(users, i, prevPairs) ==
    IF i + 1 > Len(users) THEN {users}
    ELSE IF <<users[i], users[i + 1]>> \in prevPairs
         THEN UNION {ScanPairs(Swap(users, src, dest), i + 2, prevPairs) :
                        src \in {i, i + 1}, dest \in 1..Len(users)}
         ELSE ScanPairs(users, i + 2, prevPairs)

RECURSIVE Improve(_, _, _)
Improve(orderings, iteration, prevPairs) ==
    IF iteration >= Iterations THEN orderings
    ELSE LET next == UNION {ScanPairs(u, 1, prevPairs) : u \in orderings}
         IN  \* a pass that maps the set of possible orderings to itself
             \* does so in every later pass
             IF next = orderings THEN orderings
             ELSE Improve(next, iteration + 1, prevPairs)

\* Variant: the unpaired person is left out.
PartitionPairsOnly(users) ==
    [k \in 1..(Len(users) \div 2) |-> <<users[2 * k - 1], users[2 * k]>>]

Partition(users) ==
    LET pairs == [k \in 1..(Len(users) \div 2) |->
                     <<users[2 * k - 1], users[2 * k]>>]
    IN  IF Len(users) % 2 = 1
        THEN [pairs EXCEPT ![1] = Append(@, users[Len(users)])]
        ELSE pairs

\* Variant: without the special case for three users or fewer.
makeGroupsNoSmallCase(users, prevGroups) ==
    {Partition(u) : u \in Improve(shuffled(users), 0, PrevPairs(prevGroups))}

makeGroups(users, prevGroups) ==
    IF Len(users) = 0 THEN {<<>>}
    ELSE IF Len(users) <= 3 THEN {<<users>>}
    ELSE {Partition(u) :
            u \in Improve(shuffled(users), 0, PrevPairs(prevGroups))}

\* Variant: the bot is not filtered out.
getUsersToMatchWithBot(members) == members

getUsersToMatch(members) ==
    SelectSeq(members, LAMBDA user : user /= BOT_USER_ID)

getPreviousPairings(channel) ==
    LET matching == {g \in 1..Len(groups) : groups[g].channel = channel}
        top == IF Cardinality(matching) <= HistoryLimit THEN matching
               ELSE CHOOSE S \in SUBSET matching :
                      /\ Cardinality(S) = HistoryLimit
                      /\ \A a \in S, b \in matching \ S :
                           groups[a].initialMessageTimestamp >=
                           groups[b].initialMessageTimestamp
    IN  {groups[g] : g \in top}

NewGroups(round, userIdLists) ==
    [k \in 1..Len(userIdLists) |->
        [round |-> round,
         userIds |-> userIdLists[k],
         status |-> "unknown",
         channel |-> NULL,
         initialMessageTimestamp |-> NULL,
         reminderMessageTimestamp |-> NULL,
         finalMessageTimestamp |-> NULL]]

IntervalChoices == {1, 2, 3}
StartChoices == {0, 1, 2}
CreateChoices == 0..3           \* instants at which getTimer can run

\* Variant: the start is the creation instant, not rounded down.
getTimerStartNow(nowMs, intervalMs) == nowMs

\* JobRunner.getTimer: Math.floor(Date.now() / intervalMs) * intervalMs.
getTimerStart(nowMs, intervalMs) == (nowMs \div intervalMs) * intervalMs

(***************************************************************************)
(* ConfigCacheProvider.  A load is a promise: pending, then fulfilled with *)
(* the configuration read from the store ("ok") or rejected ("failed").    *)
(* `epoch` is the number of reload() calls made before the load began.     *)
(***************************************************************************)
\* Variant: get() starts a load on every call.
AlwaysLoads(promise) == TRUE

\* get(): `if (this.loadingPromise === null)`.
NeedsLoad(promise) == promise = NULL

\* get(), called after `epoch` reloads: it starts a load when there is no
\* promise, and returns the promise.
get(epoch) ==
    /\ loads' = IF NeedsLoad(loadingPromise)
                THEN Append(loads, [status |-> "pending", value |-> NULL,
                                    epoch |-> epoch])
                ELSE loads
    /\ loadingPromise' = IF NeedsLoad(loadingPromise)
                         THEN Len(loads) + 1
                         ELSE loadingPromise
    /\ lastGet' = [promise |-> loadingPromise', epoch |-> epoch,
                   found |-> IF loadingPromise = NULL THEN "none"
                             ELSE loads[loadingPromise].status]

\* Some caller (a command, the matching service) calls get().
CacheGet ==
    /\ Yielded
    /\ get(reloads)
    /\ UNCHANGED <<schedVars, timerVars, dbInterval, reloads, reloadPending,
                   firstRunResolved, runnerPromise>>
    /\ UNCHANGED pairVars
    /\ UNCHANGED cmdVars
    /\ UNCHANGED evtVars
    /\ UNCHANGED utilVars

\* Variant: reload() leaves the promise in place.
KeepPromise(promise) == promise

\* reload(): `this.loadingPromise = null`.
Invalidated(promise) == NULL

\* Variant: the observer does not record the notification.
NotRecorded(pending) == pending

\* JobRunner.onConfigCacheReload: `this.reloadPending = true`.
onConfigCacheReload(pending) == TRUE

\* reload(), called by the reload_config command: it clears the promise,
\* calls onConfigCacheReload on the runner, then calls get().
CacheReload ==
    /\ Yielded
    /\ reloads < MaxReloads
    /\ reloads' = reloads + 1
    /\ reloadPending' = onConfigCacheReload(reloadPending)
    /\ LET promise == Invalidated(loadingPromise)
       IN  /\ loads' = IF NeedsLoad(promise)
                       THEN Append(loads, [status |-> "pending",
                                           value |-> NULL, epoch |-> reloads'])
                       ELSE loads
           /\ loadingPromise' = IF NeedsLoad(promise) THEN Len(loads) + 1
                                ELSE promise
           /\ lastGet' = [promise |-> loadingPromise', epoch |-> reloads',
                          found |-> IF promise = NULL THEN "none"
                                    ELSE loads[promise].status]
    /\ UNCHANGED <<schedVars, timerVars, dbInterval, firstRunResolved,
                   runnerPromise>>
    /\ UNCHANGED pairVars
    /\ UNCHANGED cmdVars
    /\ UNCHANGED evtVars
    /\ UNCHANGED utilVars

\* ConfigCache.load returns Ok with the stored configuration.
LoadResolve ==
    /\ \E i \in DOMAIN loads :
         /\ loads[i].status = "pending"
         /\ loads' = [loads EXCEPT ![i].status = "ok", ![i].value = dbInterval]
    /\ UNCHANGED <<schedVars, timerVars, dbInterval, loadingPromise, reloads,
                   lastGet, reloadPending, firstRunResolved, runnerPromise>>
    /\ UNCHANGED pairVars
    /\ UNCHANGED cmdVars
    /\ UNCHANGED evtVars
    /\ UNCHANGED utilVars

\* ConfigCache.load returns Err or the store rejects: load() throws.
LoadFail ==
    /\ faults < MaxFaults
    /\ faults' = faults + 1
    /\ \E i \in DOMAIN loads :
         /\ loads[i].status = "pending"
         /\ loads' = [loads EXCEPT ![i].status = "failed"]
    /\ UNCHANGED <<now, storeVars, runnerVars, histVars, timerVars, dbInterval,
                   loadingPromise, reloads, lastGet, reloadPending,
                   firstRunResolved, runnerPromise>>
    /\ UNCHANGED pairVars
    /\ UNCHANGED cmdVars
    /\ UNCHANGED evtVars
    /\ UNCHANGED utilVars

\* The stored configuration is edited.
ConfigChange ==
    /\ \E v \in IntervalChoices \ {dbInterval} : dbInterval' = v
    /\ UNCHANGED <<schedVars, timerVars, loads, loadingPromise, reloads,
                   lastGet, reloadPending, firstRunResolved, runnerPromise>>
    /\ UNCHANGED pairVars
    /\ UNCHANGED cmdVars
    /\ UNCHANGED evtVars
    /\ UNCHANGED utilVars

(***************************************************************************)
(* jobs/runner.ts and jobs/jobs.ts: the job list and the runner's loop.    *)
(***************************************************************************)
allJobs == <<"Matching", "InitialMessage", "ReminderMessage", "FinalMessage",
             "Summary">>

DMJobs == {2, 3, 4}

JobConf(j) ==
    CASE j = 2 -> [roundMessagesSentField |-> "allInitialMessagesSent",
                   roundMessagesScheduledForField |-> "matchingScheduledFor",
                   groupMessageTimestampField |-> "initialMessageTimestamp",
                   includeReactionMenu |-> FALSE]
      [] j = 3 -> [roundMessagesSentField |-> "allReminderMessagesSent",
                   roundMessagesScheduledForField |->
                       "reminderMessageScheduledFor",
                   groupMessageTimestampField |-> "reminderMessageTimestamp",
                   includeReactionMenu |-> TRUE]
      [] j = 4 -> [roundMessagesSentField |-> "allFinalMessagesSent",
                   roundMessagesScheduledForField |-> "finalMessageScheduledFor",
                   groupMessageTimestampField |-> "finalMessageTimestamp",
                   includeReactionMenu |-> TRUE]

\* One attempt on one item: `done` is the item's persisted completion gate
\* at the moment of the attempt, `status` the status in the document the job
\* holds, `ok` whether the dispatch (or the matching) succeeded.
LogEntry(j, item, status, done, ok) ==
    [job |-> j, item |-> item, status |-> status, done |-> done, ok |-> ok]

\* The log after an attempt: the attempts of the job at work, in order.  The
\* attempts of the jobs before it are dropped when it makes its first one.
Logging(entry) ==
    Append(SelectSeq(tickLog, LAMBDA e : e.job = entry.job), entry)

CanFail == faults < MaxFaults

\* The due items a job abandons when its run() ends early.
Leftover(rq, gq) ==
    {<<"round", rq[i]>> : i \in DOMAIN rq}
    \cup {<<"group", gq[i].id>> : i \in DOMAIN gq}

\* Variant: an exception thrown by a job ends the tick.
RunnerStopsOnThrow(result) == result /= "throw"

\* Whether the loop over allJobs goes on after a job that ended with
\* `result`: the catch block `continue`s and an Err result is only logged.
RunnerContinues(result) == TRUE

\* The runner's loop after job j ended with `result` ("ok", "err" for a
\* Result.Err, "throw" for an exception): it logs the result and calls the
\* next job's run(), or ends the tick and waits on its timer.  No other task
\* runs between the end of one job and the first query of the next.
Proceed(j, result, leftover) ==
    /\ results' = Append(results, result)
    /\ skipped' = skipped \cup leftover
    /\ roundQueue' = <<>>
    /\ groupQueue' = <<>>
    /\ curRound' = NULL
    /\ errored' = FALSE
    /\ IF j < Len(allJobs) /\ RunnerContinues(result)
       THEN /\ pc' = "jobs"
            /\ jobIdx' = j + 1
            /\ jobPc' = "start"
            /\ attempted' = Append(attempted, allJobs[j + 1])
       ELSE /\ pc' = "ending"
            /\ jobIdx' = 0
            /\ jobPc' = "idle"
            /\ UNCHANGED attempted

\* job.run() goes on with the queues rq and gq, or returns when both loops
\* are exhausted.
Step(rq, gq, cr, err) ==
    IF rq = <<>> /\ gq = <<>>
    THEN Proceed(jobIdx, IF err THEN "err" ELSE "ok", {})
    ELSE /\ roundQueue' = rq
         /\ groupQueue' = gq
         /\ curRound' = cr
         /\ errored' = err
         /\ jobPc' = IF gq = <<>> THEN "rounds" ELSE "groups"
         /\ UNCHANGED <<pc, jobIdx, attempted, results, skipped>>

\* job.run() ends early, abandoning rq and gq.
Throw(result, rq, gq) ==
    /\ CanFail
    /\ faults' = faults + 1
    /\ Proceed(jobIdx, result, Leftover(rq, gq))

StartTick ==
    /\ pc = "idle"
    /\ pc' = "jobs"
    /\ jobIdx' = 1
    /\ jobPc' = "start"
    /\ attempted' = <<allJobs[1]>>
    /\ UNCHANGED <<now, storeVars, roundQueue, curRound, groupQueue, errored,
                   faults, results, tickLog, skipped, failedDispatch,
                   timerVars, cfgVars>>
    /\ UNCHANGED pairVars
    /\ UNCHANGED cmdVars
    /\ UNCHANGED evtVars
    /\ UNCHANGED utilVars

\* JobRunner.reload has got its configuration: the runner's timer is
\* replaced by a new IntervalTimer built by getTimer.
NewTimer(intervalMs) ==
    /\ timerInterval' = intervalMs
    /\ timerStart' = getTimerStart(clock, intervalMs)
    /\ waitCount' = 0
    /\ createdAt' = clock
    /\ sleeping' = {}
    /\ deadlines' = <<>>
    /\ resolvedAt' = <<>>
    /\ calledAt' = <<>>
    /\ UNCHANGED clock

\* The end of the loop body: the runner resolves firstRun; when a reload is
\* pending it calls reload(), which awaits cacheProvider.get(); then it calls
\* timer.wait().  An already settled promise is consumed without yielding to
\* the event loop; a rejected one makes run() reject.
EndTick ==
    /\ pc = "ending"
    /\ firstRunResolved' = TRUE
    /\ attempted' = <<>>
    /\ results' = <<>>
    /\ tickLog' = <<>>
    /\ skipped' = {}
    /\ IF reloadPending
       THEN /\ get(reloads)
            /\ runnerPromise' = loadingPromise'
            /\ LET status == loads'[loadingPromise'].status
               IN  CASE status = "ok" ->
                          /\ NewTimer(loads'[loadingPromise'].value)
                          /\ reloadPending' = FALSE
                          /\ pc' = "idle"
                     [] status = "failed" ->
                          /\ pc' = "crashed"
                          /\ UNCHANGED <<timerVars, reloadPending>>
                     [] status = "pending" ->
                          /\ pc' = "reloading"
                          /\ UNCHANGED <<timerVars, reloadPending>>
       ELSE /\ pc' = "idle"
            /\ UNCHANGED <<timerVars, cacheVars, reloadPending, runnerPromise>>
    /\ UNCHANGED <<now, storeVars, jobIdx, jobPc, roundQueue, curRound,
                   groupQueue, errored, faults, failedDispatch, dbInterval,
                   reloads>>
    /\ UNCHANGED pairVars
    /\ UNCHANGED cmdVars
    /\ UNCHANGED evtVars
    /\ UNCHANGED utilVars

\* The promise awaited by reload() is fulfilled: the timer is replaced, the
\* pending flag is cleared and the runner calls timer.wait().
ReloadDone ==
    /\ pc = "reloading"
    /\ loads[runnerPromise].status = "ok"
    /\ NewTimer(loads[runnerPromise].value)
    /\ reloadPending' = FALSE
    /\ pc' = "idle"
    /\ UNCHANGED <<now, storeVars, jobIdx, jobPc, roundQueue, curRound,
                   groupQueue, errored, faults, histVars, cacheVars,
                   firstRunResolved, runnerPromise>>
    /\ UNCHANGED pairVars
    /\ UNCHANGED cmdVars
    /\ UNCHANGED evtVars
    /\ UNCHANGED utilVars

\* The promise awaited by reload() is rejected: the exception leaves
\* reload() and run(), which has no handler around it.
ReloadThrows ==
    /\ pc = "reloading"
    /\ loads[runnerPromise].status = "failed"
    /\ pc' = "crashed"
    /\ UNCHANGED <<now, storeVars, jobIdx, jobPc, roundQueue, curRound,
                   groupQueue, errored, faults, histVars, timerVars, cacheVars,
                   reloadPending, firstRunResolved, runnerPromise>>
    /\ UNCHANGED pairVars
    /\ UNCHANGED cmdVars
    /\ UNCHANGED evtVars
    /\ UNCHANGED utilVars

\* One job of the list with its run() taken as a whole: it returns Ok or Err
\* or throws.
JobResults == {"ok", "err", "throw"}

RunJob ==
    /\ pc = "jobs"
    /\ \E result \in JobResults : Proceed(jobIdx, result, {})
    /\ UNCHANGED <<now, storeVars, faults, tickLog, failedDispatch, timerVars,
                   cfgVars>>
    /\ UNCHANGED pairVars
    /\ UNCHANGED cmdVars
    /\ UNCHANGED evtVars
    /\ UNCHANGED utilVars

(***************************************************************************)
(* MatchingJob.run and createGroups.                                       *)
(***************************************************************************)
\* Variant: the query forgets the matchingCompleted filter.
RoundsToStartAgain ==
    SelectSeq(Ids(rounds), LAMBDA r : rounds[r].matchingScheduledFor <= now)

RoundsToStart ==
    SelectSeq(Ids(rounds), LAMBDA r :
        /\ rounds[r].matchingCompleted = FALSE
        /\ rounds[r].matchingScheduledFor <= now)

MatchingQuery ==
    /\ pc = "jobs" /\ jobIdx = 1 /\ jobPc = "start"
    /\ \/ /\ Step(RoundsToStart, <<>>, NULL, FALSE)
          /\ UNCHANGED faults
       \/ \* RoundModel.find throws: caught, run() returns Err
          Throw("err", <<>>, <<>>)
    /\ UNCHANGED <<now, storeVars, tickLog, failedDispatch, timerVars, cfgVars>>
    /\ UNCHANGED pairVars
    /\ UNCHANGED cmdVars
    /\ UNCHANGED evtVars
    /\ UNCHANGED utilVars

\* The writes of createGroups.  The callback given to
\* mongoose.connection.transaction() takes no session and passes none to
\* insertMany() or save(), so the two writes are not part of the transaction:
\* each is applied to the store on its own.
InsertManyGroups(r, userIdLists) == groups \o NewGroups(r, userIdLists)

SaveMatchingCompleted(r) == [rounds EXCEPT ![r].matchingCompleted = TRUE]

MatchingCreateGroups ==
    /\ pc = "jobs" /\ jobIdx = 1 /\ jobPc = "rounds" /\ roundQueue /= <<>>
    /\ LET r == Head(roundQueue)
           rest == Tail(roundQueue)
           entry(ok) == LogEntry(1, r, "none", rounds[r].matchingCompleted, ok)
       IN
       \/ \* getConversationMembers returns Err: createGroups returns Err
          /\ CanFail
          /\ faults' = faults + 1
          /\ Step(rest, <<>>, r, TRUE)
          /\ tickLog' = Logging(entry(FALSE))
          /\ UNCHANGED storeVars
       \/ \* a call throws before anything is written (the Slack call,
          \* getPreviousPairings or insertMany)
          /\ Throw("throw", rest, <<>>)
          /\ tickLog' = Logging(entry(FALSE))
          /\ UNCHANGED storeVars
       \/ \E members \in MemberChoices(rounds[r].channel) :
          \E userIdLists \in makeGroups(getUsersToMatch(members),
                                getPreviousPairings(rounds[r].channel)) :
             \/ \* insertMany succeeds, round.save() throws
                /\ Throw("throw", rest, <<>>)
                /\ groups' = InsertManyGroups(r, userIdLists)
                /\ tickLog' = Logging(entry(FALSE))
                /\ UNCHANGED rounds
             \/ \* both writes succeed
                /\ Step(rest, <<>>, r, errored)
                /\ groups' = InsertManyGroups(r, userIdLists)
                /\ rounds' = SaveMatchingCompleted(r)
                /\ tickLog' = Logging(entry(TRUE))
                /\ UNCHANGED faults
    /\ UNCHANGED <<now, failedDispatch, timerVars, cfgVars>>
    /\ UNCHANGED pairVars
    /\ UNCHANGED cmdVars
    /\ UNCHANGED evtVars
    /\ UNCHANGED utilVars

(***************************************************************************)
(* ScheduledDirectMessageJob.run (InitialMessage, ReminderMessage,         *)
(* FinalMessage).                                                          *)
(***************************************************************************)
DueRounds(j) ==
    SelectSeq(Ids(rounds), LAMBDA r :
        /\ rounds[r][JobConf(j).roundMessagesSentField] = FALSE
        /\ rounds[r][JobConf(j).roundMessagesScheduledForField] <= now)

DMQueryRounds ==
    /\ pc = "jobs" /\ jobIdx \in DMJobs /\ jobPc = "start"
    /\ \/ /\ Step(DueRounds(jobIdx), <<>>, NULL, FALSE)
          /\ UNCHANGED faults
       \/ \* RoundModel.find throws
          Throw("throw", <<>>, <<>>)
    /\ UNCHANGED <<now, storeVars, tickLog, failedDispatch, timerVars, cfgVars>>
    /\ UNCHANGED pairVars
    /\ UNCHANGED cmdVars
    /\ UNCHANGED evtVars
    /\ UNCHANGED utilVars

\* The documents GroupModel.find returns: the job works on these copies.
GroupDoc(g) == [id |-> g, status |-> groups[g].status,
                channel |-> groups[g].channel]

\* Variant: the query forgets the filter on the phase's timestamp.
GroupsToSendResend(j, r) ==
    LET selected == SelectSeq(Ids(groups), LAMBDA g :
            /\ groups[g].round = r
            /\ groups[g].status \in {"unknown", "scheduled"})
    IN  [k \in 1..Len(selected) |-> GroupDoc(selected[k])]

\* Variant: the query forgets the filter on the status.
GroupsToSendAnyStatus(j, r) ==
    LET selected == SelectSeq(Ids(groups), LAMBDA g :
            /\ groups[g].round = r
            /\ groups[g][JobConf(j).groupMessageTimestampField] = NULL)
    IN  [k \in 1..Len(selected) |-> GroupDoc(selected[k])]

GroupsToSend(j, r) ==
    LET selected == SelectSeq(Ids(groups), LAMBDA g :
            /\ groups[g].round = r
            /\ groups[g][JobConf(j).groupMessageTimestampField] = NULL
            /\ groups[g].status \in {"unknown", "scheduled"})
    IN  [k \in 1..Len(selected) |-> GroupDoc(selected[k])]

DMQueryGroups ==
    /\ pc = "jobs" /\ jobIdx \in DMJobs /\ jobPc = "rounds"
    /\ roundQueue /= <<>>
    /\ LET r == Head(roundQueue)
           rest == Tail(roundQueue)
       IN  \/ /\ Step(rest, GroupsToSend(jobIdx, r), r, errored)
              /\ UNCHANGED faults
           \/ \* GroupModel.find throws
              Throw("throw", rest, <<>>)
    /\ UNCHANGED <<now, storeVars, tickLog, failedDispatch, timerVars, cfgVars>>
    /\ UNCHANGED pairVars
    /\ UNCHANGED cmdVars
    /\ UNCHANGED evtVars
    /\ UNCHANGED utilVars

\* Variant: save() writes every field of the document the job holds.
SaveWholeDocument(j, doc, dmChannel, timestamp) ==
    [groups EXCEPT
        ![doc.id] = [@ EXCEPT
            ![JobConf(j).groupMessageTimestampField] = timestamp,
            !.status = doc.status,
            !.channel = IF doc.channel = NULL THEN dmChannel ELSE doc.channel]]

\* group.save() after a successful send: mongoose writes the modified paths
\* only, that is the phase's timestamp and, when the fetched document had no
\* channel, the channel.
SaveGroupMessage(j, doc, dmChannel, timestamp) ==
    [groups EXCEPT
        ![doc.id] = [@ EXCEPT
            ![JobConf(j).groupMessageTimestampField] = timestamp,
            !.channel = IF doc.channel = NULL THEN dmChannel ELSE @]]

\* Variant: a failed send still marks the group as sent.
MarkGroupSent(j, doc) ==
    [groups EXCEPT ![doc.id][JobConf(j).groupMessageTimestampField] =
        Timestamp(j, doc.id)]

\* The store after a send that returned Err: nothing is written.
KeepGroupUnsent(j, doc) == groups

DMSend ==
    /\ pc = "jobs" /\ jobIdx \in DMJobs /\ jobPc = "groups"
    /\ groupQueue /= <<>>
    /\ LET doc == Head(groupQueue)
           rest == Tail(groupQueue)
           g == doc.id
           field == JobConf(jobIdx).groupMessageTimestampField
           entry(ok) ==
               LogEntry(jobIdx, g, doc.status, groups[g][field] /= NULL, ok)
       IN
       \/ \* send returns Err
          /\ CanFail
          /\ faults' = faults + 1
          /\ Step(roundQueue, rest, curRound, TRUE)
          /\ groups' = KeepGroupUnsent(jobIdx, doc)
          /\ tickLog' = Logging(entry(FALSE))
          /\ failedDispatch' = failedDispatch \cup {<<jobIdx, g>>}
          /\ UNCHANGED rounds
       \/ \* send throws
          /\ Throw("throw", roundQueue, rest)
          /\ tickLog' = Logging(entry(FALSE))
          /\ failedDispatch' = failedDispatch \cup {<<jobIdx, g>>}
          /\ UNCHANGED storeVars
       \/ \* send returns Ok, group.save() throws
          /\ Throw("throw", roundQueue, rest)
          /\ tickLog' = Logging(entry(TRUE))
          /\ UNCHANGED <<rounds, groups, failedDispatch>>
       \/ \* send returns Ok and the timestamp is saved
          /\ groups' = SaveGroupMessage(jobIdx, doc,
                           DmChannel(groups[g].userIds),
                           PostedTimestamp(jobIdx, g, groups[g][field]))
          /\ tickLog' = Logging(entry(TRUE))
          /\ failedDispatch' = failedDispatch \ {<<jobIdx, g>>}
          /\ UNCHANGED rounds
          /\ \/ \* no reaction menu, or react returns Ok
                /\ Step(roundQueue, rest, curRound, errored)
                /\ UNCHANGED faults
             \/ \* react returns Err
                /\ JobConf(jobIdx).includeReactionMenu
                /\ CanFail
                /\ faults' = faults + 1
                /\ Step(roundQueue, rest, curRound, TRUE)
             \/ \* react throws
                /\ JobConf(jobIdx).includeReactionMenu
                /\ Throw("throw", roundQueue, rest)
    /\ UNCHANGED <<now, timerVars, cfgVars>>
    /\ UNCHANGED pairVars
    /\ UNCHANGED cmdVars
    /\ UNCHANGED evtVars
    /\ UNCHANGED utilVars

(***************************************************************************)
(* SummaryMessageJob.run.                                                  *)
(***************************************************************************)
\* Variant: the query forgets the summaryMessageTimestamp filter.
SummaryDueRoundsResend ==
    SelectSeq(Ids(rounds), LAMBDA r :
        rounds[r].summaryMessageScheduledFor <= now)

SummaryDueRounds ==
    SelectSeq(Ids(rounds), LAMBDA r :
        /\ rounds[r].summaryMessageTimestamp = NULL
        /\ rounds[r].summaryMessageScheduledFor <= now)

SummaryQuery ==
    /\ pc = "jobs" /\ jobIdx = 5 /\ jobPc = "start"
    /\ \/ /\ Step(SummaryDueRounds, <<>>, NULL, FALSE)
          /\ UNCHANGED faults
       \/ \* RoundModel.find throws
          Throw("throw", <<>>, <<>>)
    /\ UNCHANGED <<now, storeVars, tickLog, failedDispatch, timerVars, cfgVars>>
    /\ UNCHANGED pairVars
    /\ UNCHANGED cmdVars
    /\ UNCHANGED evtVars
    /\ UNCHANGED utilVars

\* GroupModel.aggregate grouped by status, reduced over the four statuses.
Counts(r) ==
    [status \in GROUP_STATUSES |->
        Cardinality({g \in DOMAIN groups :
                        groups[g].round = r /\ groups[g].status = status})]

\* Variant: scheduled groups are not counted as met.
SummaryMetOnly(counts) == counts["met"]

SummaryMet(counts) == counts["met"] + counts["scheduled"]

SummaryTotal(counts) ==
    SummaryMet(counts) + counts["unknown"] + counts["did_not_meet"]

\* A number in a template literal, for the numbers a summary can hold.
Decimal(n) == <<"0", "1", "2", "3", "4", "5", "6", "7", "8", "9">>[n + 1]

\* composeSummaryMessage: the text, as the pieces it is assembled from.
composeSummaryMessage(met, total) ==
    LET stats == IF total = 1
                 THEN IF met = 0 THEN <<"the one group did not meet">>
                      ELSE <<"the one group met">>
                 ELSE <<Decimal(met), " of the ", Decimal(total),
                        " groups met">>
    IN  <<"In the last round of muffins, ">> \o stats \o <<".">>

SummaryText(r) ==
    composeSummaryMessage(SummaryMet(Counts(r)), SummaryTotal(Counts(r)))

SaveSummaryTimestamp(r, timestamp) ==
    [rounds EXCEPT ![r].summaryMessageTimestamp = timestamp]

SummarySend ==
    /\ pc = "jobs" /\ jobIdx = 5 /\ jobPc = "rounds" /\ roundQueue /= <<>>
    /\ LET r == Head(roundQueue)
           rest == Tail(roundQueue)
           entry(ok) == LogEntry(5, r, SummaryText(r),
                                 rounds[r].summaryMessageTimestamp /= NULL, ok)
       IN
       \/ \* GroupModel.aggregate throws
          /\ Throw("throw", rest, <<>>)
          /\ UNCHANGED <<storeVars, tickLog>>
       \/ \* send returns Err
          /\ CanFail
          /\ faults' = faults + 1
          /\ Step(rest, <<>>, r, TRUE)
          /\ tickLog' = Logging(entry(FALSE))
          /\ UNCHANGED storeVars
       \/ \* send throws
          /\ Throw("throw", rest, <<>>)
          /\ tickLog' = Logging(entry(FALSE))
          /\ UNCHANGED storeVars
       \/ \* send returns Ok, round.save() throws
          /\ Throw("throw", rest, <<>>)
          /\ tickLog' = Logging(entry(TRUE))
          /\ UNCHANGED <<rounds, groups>>
       \/ \* send returns Ok and the timestamp is saved
          /\ Step(rest, <<>>, r, errored)
          /\ rounds' = SaveSummaryTimestamp(r,
                           PostedTimestamp(5, r,
                               rounds[r].summaryMessageTimestamp))
          /\ tickLog' = Logging(entry(TRUE))
          /\ UNCHANGED <<groups, faults>>
    /\ UNCHANGED <<now, failedDispatch, timerVars, cfgVars>>
    /\ UNCHANGED pairVars
    /\ UNCHANGED cmdVars
    /\ UNCHANGED evtVars
    /\ UNCHANGED utilVars

(***************************************************************************)
(* handlers/reaction.ts: onReactionAddedToMessage.                         *)
(***************************************************************************)
REACTION_TO_GROUP_STATUS ==
    [white_check_mark |-> "met", calendar |-> "scheduled", x |-> "did_not_meet"]

\* `reaction in REACTION_TO_GROUP_STATUS` is also true of a name the object
\* inherits from Object.prototype; the value read for it is not null and is
\* no group status.
InheritedNames == {"constructor"}

InReactionMenu(reaction) ==
    reaction \in DOMAIN REACTION_TO_GROUP_STATUS \cup InheritedNames

\* Variant: the message may also be the group's initial message.
FindGroupWithInitial(channel, timestamp) ==
    LET found == SelectSeq(Ids(groups), LAMBDA g :
            /\ groups[g].channel = channel
            /\ \/ groups[g].initialMessageTimestamp = timestamp
               \/ groups[g].reminderMessageTimestamp = timestamp
               \/ groups[g].finalMessageTimestamp = timestamp)
    IN  IF found = <<>> THEN NULL ELSE Head(found)

FindGroupByMessage(channel, timestamp) ==
    LET found == SelectSeq(Ids(groups), LAMBDA g :
            /\ groups[g].channel = channel
            /\ \/ groups[g].reminderMessageTimestamp = timestamp
               \/ groups[g].finalMessageTimestamp = timestamp)
    IN  IF found = <<>> THEN NULL ELSE Head(found)

\* The handler returns early, changing nothing, when the reaction is not in
\* the reaction menu or no group has the message as its reminder or final
\* message; otherwise it stores the reaction's status in the group.
onReactionAddedToMessage(channel, timestamp, reaction) ==
    LET group == FindGroupByMessage(channel, timestamp)
    IN  /\ reaction \in DOMAIN REACTION_TO_GROUP_STATUS
        /\ group /= NULL
        /\ groups' = [groups EXCEPT
                 ![group].status = REACTION_TO_GROUP_STATUS[reaction]]

ReactionAdded ==
    /\ Yielded
    /\ \E m \in Messages, reaction \in Reactions :
         onReactionAddedToMessage(m[1], m[2], reaction)
    /\ UNCHANGED <<now, rounds, runnerVars, faults, histVars, timerVars, cfgVars>>
    /\ UNCHANGED pairVars
    /\ UNCHANGED cmdVars
    /\ UNCHANGED evtVars
    /\ UNCHANGED utilVars

\* The events Slack can deliver: any reaction on any message of a conversation
\* the bot is in, whether or not the bot sent the message with a menu.
EventChannels ==
    {groups[g].channel : g \in DOMAIN groups}
        \cup {rounds[r].channel : r \in DOMAIN rounds}

EventTimestamps ==
    (UNION {{groups[g].initialMessageTimestamp,
             groups[g].reminderMessageTimestamp,
             groups[g].finalMessageTimestamp} : g \in DOMAIN groups}
        \cup {rounds[r].summaryMessageTimestamp : r \in DOMAIN rounds})
        \ {NULL}

ReactionOutcome(channel, timestamp, reaction, outcome, group, sent) ==
    [channel |-> channel, timestamp |-> timestamp, reaction |-> reaction,
     outcome |-> outcome, group |-> group, sent |-> sent]

\* The handler on one event, with what it did: the way it returned, the group
\* it saved and the number of calls of send.  The result of send is not
\* looked at.
ReactionEvent ==
    /\ \E channel \in EventChannels, timestamp \in EventTimestamps,
          reaction \in Reactions :
         LET group == FindGroupByMessage(channel, timestamp)
             did(outcome, saved, sent) ==
                 lastReaction' = ReactionOutcome(channel, timestamp, reaction,
                                                 outcome, saved, sent)
         IN  \/ \* reaction not supported by the reaction menu
                /\ ~InReactionMenu(reaction)
                /\ did("unsupported", NULL, 0)
                /\ UNCHANGED groups
             \/ \* GroupModel.findOne throws
                /\ InReactionMenu(reaction)
                /\ did("find_throws", NULL, 0)
                /\ UNCHANGED groups
             \/ \* message does not have a reaction menu
                /\ InReactionMenu(reaction)
                /\ group = NULL
                /\ did("no_menu", NULL, 0)
                /\ UNCHANGED groups
             \/ \* group.save() throws: the store is down, or the value is
                \* no group status and validation rejects it
                /\ InReactionMenu(reaction)
                /\ group /= NULL
                /\ did("save_throws", NULL, 0)
                /\ UNCHANGED groups
             \/ \* the status is saved and the reply is sent
                /\ onReactionAddedToMessage(channel, timestamp, reaction)
                /\ did("replied", group, 1)
    /\ UNCHANGED <<now, rounds, runnerVars, faults, histVars, timerVars, cfgVars>>
    /\ UNCHANGED pairVars
    /\ UNCHANGED cmdVars
    /\ UNCHANGED utilVars

AdvanceTime ==
    /\ Yielded
    /\ now < MaxTime
    /\ now' = now + 1
    /\ UNCHANGED <<storeVars, runnerVars, faults, histVars, timerVars, cfgVars>>
    /\ UNCHANGED pairVars
    /\ UNCHANGED cmdVars
    /\ UNCHANGED evtVars
    /\ UNCHANGED utilVars

(***************************************************************************)
(* util/timer.ts: IntervalTimer.                                           *)
(***************************************************************************)
\* Variant: the deadline is taken from the current time instead of from the
\* call counter.
sleepUntilFromNow(count) == clock + timerInterval

sleepUntilMs(count) == timerStart + count * timerInterval

TimerWait ==
    /\ waitCount < MaxWaits
    /\ waitCount' = waitCount + 1
    /\ deadlines' = Append(deadlines, sleepUntilMs(waitCount'))
    /\ calledAt' = Append(calledAt, clock)
    /\ sleeping' = sleeping \cup
           {[call |-> waitCount', until |-> sleepUntilMs(waitCount')]}
    /\ UNCHANGED <<schedVars, cfgVars, timerStart, timerInterval, clock, resolvedAt,
                   createdAt>>
    /\ UNCHANGED pairVars
    /\ UNCHANGED cmdVars
    /\ UNCHANGED evtVars
    /\ UNCHANGED utilVars

\* Variant: the timeout fires one time unit early.
sleepElapsedEarly(s) == clock + 1 >= s.until

\* setTimeout fires once at least `sleepUntilMs - Date.now()` milliseconds
\* have passed since the call, immediately when that is not positive.
sleepElapsed(s) == clock >= s.until

TimerResolve ==
    /\ \E s \in sleeping :
         /\ sleepElapsed(s)
         /\ sleeping' = sleeping \ {s}
         /\ resolvedAt' = [c \in DOMAIN resolvedAt \cup {s.call} |->
                              IF c = s.call THEN clock ELSE resolvedAt[c]]
    /\ UNCHANGED <<schedVars, cfgVars, timerStart, timerInterval, waitCount, clock,
                   deadlines, calledAt, createdAt>>
    /\ UNCHANGED pairVars
    /\ UNCHANGED cmdVars
    /\ UNCHANGED evtVars
    /\ UNCHANGED utilVars

TimerClock ==
    /\ clock < MaxClock
    /\ clock' = clock + 1
    /\ UNCHANGED <<schedVars, cfgVars, timerStart, timerInterval, waitCount, sleeping,
                   deadlines, resolvedAt, calledAt, createdAt>>
    /\ UNCHANGED pairVars
    /\ UNCHANGED cmdVars
    /\ UNCHANGED evtVars
    /\ UNCHANGED utilVars

(***************************************************************************)
(* Specifications.                                                         *)
(***************************************************************************)
SchedInit ==
    /\ now = 0
    /\ rounds = <<>>
    /\ groups = <<>>
    /\ pc = "idle"
    /\ jobIdx = 0
    /\ jobPc = "idle"
    /\ roundQueue = <<>>
    /\ curRound = NULL
    /\ groupQueue = <<>>
    /\ errored = FALSE
    /\ faults = 0
    /\ attempted = <<>>
    /\ results = <<>>
    /\ tickLog = <<>>
    /\ skipped = {}
    /\ failedDispatch = {}

TimerIdle ==
    /\ waitCount = 0
    /\ sleeping = {}
    /\ deadlines = <<>>
    /\ resolvedAt = <<>>
    /\ calledAt = <<>>
    /\ createdAt = clock

\* The cache after start-up (the application stops when its first load
\* fails) and the runner created from it.
CacheLoaded ==
    /\ dbInterval = 1
    /\ loads = <<[status |-> "ok", value |-> 1, epoch |-> 0]>>
    /\ loadingPromise = 1
    /\ reloads = 0
    /\ lastGet = [promise |-> 1, epoch |-> 0, found |-> "ok"]
    /\ reloadPending = FALSE
    /\ firstRunResolved = FALSE
    /\ runnerPromise = 1

\* No utility function was called.
RxIdle ==
    /\ rxInput = <<>>
    /\ rxAttempts = <<>>
    /\ rxLines = <<>>
    /\ rxReturn = "idle"

UtilIdle ==
    /\ durationInput = <<>>
    /\ parsed = FALSE
    /\ durationResult = [ok |-> FALSE, error |-> "none"]
    /\ RxIdle

\* No reaction event was handled.
EvtIdle == lastReaction = [outcome |-> "none"]

\* No round command was run.
CmdIdle ==
    /\ cmdCount = 0
    /\ lastCmd = [cmd |-> "none"]

\* No matching is under way.
PairIdle ==
    /\ matchUsers = <<>>
    /\ matchHistory = {}
    /\ matchCalled = FALSE
    /\ matchResult = <<>>

Init ==
    /\ SchedInit
    /\ clock = 0
    /\ timerStart = 0
    /\ timerInterval = 1
    /\ TimerIdle
    /\ CacheLoaded
    /\ PairIdle
    /\ CmdIdle
    /\ EvtIdle
    /\ UtilIdle

Next ==
    \/ CreateRound
    \/ AdvanceTime
    \/ StartTick
    \/ EndTick
    \/ MatchingQuery
    \/ MatchingCreateGroups
    \/ DMQueryRounds
    \/ DMQueryGroups
    \/ DMSend
    \/ SummaryQuery
    \/ SummarySend
    \/ ReactionAdded

Spec == Init /\ [][Next]_vars

\* The timer on its own: constructed with any interval and start, then
\* waited on by any number of callers while the clock advances.
TimerInit ==
    /\ SchedInit
    /\ clock = 0
    /\ timerStart \in StartChoices
    /\ timerInterval \in IntervalChoices
    /\ TimerIdle
    /\ CacheLoaded
    /\ PairIdle
    /\ CmdIdle
    /\ EvtIdle
    /\ UtilIdle

TimerNext ==
    \/ TimerWait
    \/ TimerResolve
    \/ TimerClock

TimerSpec == TimerInit /\ [][TimerNext]_vars

\* The runner with its jobs taken as a whole, the configuration cache and
\* the reload_config command.
ConfigNext ==
    \/ StartTick
    \/ RunJob
    \/ EndTick
    \/ ReloadDone
    \/ ReloadThrows
    \/ CacheGet
    \/ CacheReload
    \/ LoadResolve
    \/ LoadFail
    \/ ConfigChange

ConfigSpec == Init /\ [][ConfigNext]_vars

\* The event loop runs every continuation that is ready: the runner's loop
\* goes on whenever it can, and a load that was started settles.  Nothing
\* obliges anyone to call reload(), get() or to edit the configuration.
ConfigFairness ==
    /\ WF_vars(StartTick)
    /\ WF_vars(RunJob)
    /\ WF_vars(EndTick)
    /\ WF_vars(ReloadDone)
    /\ WF_vars(ReloadThrows)
    /\ WF_vars(LoadResolve \/ LoadFail)

ConfigLiveSpec == ConfigSpec /\ ConfigFairness

\* The scheduler's timer: constructed by JobRunner.getTimer at any instant,
\* then waited on.
RunnerTimerInit ==
    /\ SchedInit
    /\ clock \in CreateChoices
    /\ timerInterval \in IntervalChoices
    /\ timerStart = getTimerStart(clock, timerInterval)
    /\ TimerIdle
    /\ CacheLoaded
    /\ PairIdle
    /\ CmdIdle
    /\ EvtIdle
    /\ UtilIdle

RunnerTimerSpec == RunnerTimerInit /\ [][TimerNext]_vars

(***************************************************************************)
(* Properties.                                                             *)
(***************************************************************************)
Eligible == {"unknown", "scheduled"}

GroupsOf(r) == {g \in DOMAIN groups : groups[g].round = r}

Logged(j, item) ==
    \E i \in DOMAIN tickLog : tickLog[i].job = j /\ tickLog[i].item = item

\* C1: a direct-message job never dispatches a phase's message to a group
\* whose message identifier for that phase is already persisted.
C1_NoResendToFlaggedGroup ==
    \A i \in DOMAIN tickLog :
        tickLog[i].job \in DMJobs => tickLog[i].done = FALSE

\* A job is past the query of a round one of whose groups was flagged in an
\* earlier tick (no attempt of this tick is logged for it): the group was
\* left alone.
C1_Witness ==
    /\ pc = "jobs" /\ jobIdx \in DMJobs /\ curRound /= NULL
    /\ \E g \in GroupsOf(curRound) :
         LET ts == groups[g][JobConf(jobIdx).groupMessageTimestampField]
         IN  ts /= NULL /\ ~Logged(jobIdx, g)

\* C2: a summary is never dispatched for a round whose
\* summaryMessageTimestamp is persisted, and at most once per round and tick.
C2_SummaryOnce ==
    /\ \A i \in DOMAIN tickLog :
         tickLog[i].job = 5 => tickLog[i].done = FALSE
    /\ \A i, k \in DOMAIN tickLog :
         (i /= k /\ tickLog[i].job = 5 /\ tickLog[k].job = 5)
             => tickLog[i].item /= tickLog[k].item

\* A tick has run its summary job on a due round whose summary was sent in
\* an earlier tick, without sending it again.
C2_Witness ==
    /\ pc = "ending" /\ Len(results) = 5 /\ results[5] = "ok"
    /\ \E r \in DOMAIN rounds :
         /\ rounds[r].summaryMessageTimestamp /= NULL
         /\ rounds[r].summaryMessageScheduledFor <= now
         /\ ~Logged(5, r)

\* C3: the matching job never works on a round whose matchingCompleted is
\* true, and no step adds a group to such a round.
C3_MatchingOnce ==
    /\ [](\A i \in DOMAIN tickLog :
            tickLog[i].job = 1 => tickLog[i].done = FALSE)
    /\ [][\A r \in DOMAIN rounds :
            rounds[r].matchingCompleted => GroupsOf(r)' = GroupsOf(r)]_vars

\* The matching job of a tick has run while a round matched in an earlier
\* tick was past its start, and did not select it.
C3_Witness ==
    /\ pc = "jobs" /\ jobIdx = 2 /\ jobPc = "start"
    /\ \E r \in DOMAIN rounds :
         /\ rounds[r].matchingCompleted
         /\ rounds[r].matchingScheduledFor <= now
         /\ GroupsOf(r) /= {}
         /\ \A g \in GroupsOf(r) :
              groups[g].initialMessageTimestamp /= NULL
         /\ ~Logged(1, r)

\* C4: a round has groups only if its matchingCompleted is true.
C4_GroupsOnlyWhenMatched ==
    \A g \in DOMAIN groups : rounds[groups[g].round].matchingCompleted

\* C5: when a message-phase job has returned Ok, every round for which it
\* dispatched messages has its all<Phase>MessagesSent flag set.
C5_AllSentFlagSet ==
    \A j \in DMJobs :
        (Len(results) >= j /\ results[j] = "ok") =>
            \A i \in DOMAIN tickLog :
                tickLog[i].job = j =>
                    rounds[groups[tickLog[i].item].round]
                          [JobConf(j).roundMessagesSentField] = TRUE

\* C6: the reminder and final jobs hold and dispatch only group documents
\* whose status, as returned by the query, is unknown or scheduled.
C6_StatusFilter ==
    /\ \A i \in DOMAIN tickLog :
         tickLog[i].job \in {3, 4} => tickLog[i].status \in Eligible
    /\ jobIdx \in {3, 4} =>
         \A i \in DOMAIN groupQueue : groupQueue[i].status \in Eligible

\* The reminder or final job is past the query of a round one of whose
\* groups is resolved and lacks the phase's message: the group was left out.
C6_Witness ==
    /\ pc = "jobs" /\ jobIdx \in {3, 4} /\ curRound /= NULL
    /\ \E g \in GroupsOf(curRound) :
         /\ groups[g].status \in {"met", "did_not_meet"}
         /\ groups[g][JobConf(jobIdx).groupMessageTimestampField] = NULL
         /\ ~Logged(jobIdx, g)
         /\ \A i \in DOMAIN groupQueue : groupQueue[i].id /= g

\* C7: no job abandons a due round or a selected group in its tick.
C7_NothingSkipped == skipped = {}

\* C8: in every tick the jobs are attempted in the order of allJobs, each
\* once, and the tick ends only after all five have ended.
C8_JobOrder ==
    /\ Len(attempted) <= Len(allJobs)
    /\ \A i \in DOMAIN attempted : attempted[i] = allJobs[i]
    /\ pc = "jobs" => Len(attempted) = jobIdx /\ Len(results) = jobIdx - 1
    /\ pc = "ending" => attempted = allJobs /\ Len(results) = Len(allJobs)

\* A tick ended with all five jobs attempted although an early one threw or
\* returned an error.
C8_Witness ==
    /\ pc = "ending" /\ attempted = allJobs
    /\ \E i \in 1..2 : results[i] \in {"err", "throw"}

\* C9: a group whose dispatch failed keeps the phase's identifier unset, is
\* attempted at most once per job and tick, and is returned by the phase's
\* next query of its round while its status is unknown or scheduled.
C9_FailedDispatchRetried ==
    /\ [](\A f \in failedDispatch :
            groups[f[2]][JobConf(f[1]).groupMessageTimestampField] = NULL)
    /\ [](\A i, k \in DOMAIN tickLog :
            (i /= k /\ tickLog[i].job \in DMJobs
                /\ tickLog[i].job = tickLog[k].job)
                => tickLog[i].item /= tickLog[k].item)
    /\ [][(/\ pc = "jobs" /\ jobIdx \in DMJobs /\ jobPc = "rounds"
           /\ roundQueue /= <<>>
           /\ faults' = faults
           /\ roundQueue' /= roundQueue)
          => \A f \in failedDispatch :
               (/\ f[1] = jobIdx
                /\ groups[f[2]].round = Head(roundQueue)
                /\ groups[f[2]].status \in Eligible)
               => \E i \in DOMAIN groupQueue' : groupQueue'[i].id = f[2]]_vars

\* A group whose dispatch failed in an earlier tick is in the job's queue
\* again.
C9_Witness ==
    /\ pc = "jobs" /\ jobIdx \in DMJobs
    /\ \E f \in failedDispatch :
         /\ f[1] = jobIdx
         /\ \E i \in DOMAIN groupQueue : groupQueue[i].id = f[2]

\* C10: the N-th call to wait() targets start + N * interval, so no two
\* calls share a deadline and no interval boundary is skipped.
C10_NthDeadline ==
    /\ \A n \in DOMAIN deadlines :
         deadlines[n] = timerStart + n * timerInterval
    /\ \A n, m \in DOMAIN deadlines : n /= m => deadlines[n] /= deadlines[m]

\* Three calls have been made, the later ones while earlier ones were still
\* pending.
C10_Witness ==
    /\ Len(deadlines) >= 3
    /\ Cardinality(sleeping) >= 2

\* C11: a wait() never resolves before start + counter * interval, and a
\* pending wait() whose deadline has passed can resolve at once; with start 0
\* and interval 1 the first three waits resolve at 1, 2 and 3 at the earliest.
C11_WaitNotEarly ==
    /\ \A c \in DOMAIN resolvedAt :
         resolvedAt[c] >= timerStart + c * timerInterval
    /\ \A s \in sleeping : s.until <= clock => sleepElapsed(s)
    /\ (timerStart = 0 /\ timerInterval = 1) =>
         \A c \in DOMAIN resolvedAt : resolvedAt[c] >= c

\* Three sequential waits from start 0 with interval 1 have resolved, one of
\* them at the instant of its call because its deadline had passed.
C11_Witness ==
    /\ timerStart = 0 /\ timerInterval = 1
    /\ DOMAIN resolvedAt = {1, 2, 3}
    /\ calledAt[2] >= resolvedAt[1] /\ calledAt[3] >= resolvedAt[2]
    /\ \E c \in 1..3 :
         calledAt[c] >= deadlines[c] /\ resolvedAt[c] = calledAt[c]

\* C12: for a limiter constructed with the default start, two consecutive
\* sequential waits resolve, and so their dispatches start, at least one
\* interval apart.
C12_MinSpacing ==
    timerStart = createdAt =>
        \A n \in DOMAIN resolvedAt :
            (n + 1 \in DOMAIN resolvedAt /\ calledAt[n + 1] >= resolvedAt[n])
                => resolvedAt[n + 1] - resolvedAt[n] >= timerInterval

\* C13: the start computed by getTimer and every deadline of the timer are
\* multiples of the interval; the first deadline is later than the creation
\* instant and at most one interval after it.
C13_AlignedDeadlines ==
    /\ timerStart % timerInterval = 0
    /\ \A n \in DOMAIN deadlines : deadlines[n] % timerInterval = 0
    /\ deadlines /= <<>> =>
         /\ deadlines[1] > createdAt
         /\ deadlines[1] <= createdAt + timerInterval

\* A timer created off a boundary has been waited on twice.
C13_Witness ==
    /\ createdAt % timerInterval /= 0
    /\ Len(deadlines) >= 2

\* The summary job on its own: the runner is about to call its run(), two
\* rounds are past their summary instant and their groups have any status.
SummaryGroup(g, r, status) ==
    [round |-> r,
     userIds |-> <<1, 2>>,
     status |-> status,
     channel |-> DmChannel(<<1, 2>>),
     initialMessageTimestamp |-> Timestamp(2, g),
     reminderMessageTimestamp |-> Timestamp(3, g),
     finalMessageTimestamp |-> Timestamp(4, g)]

SummaryStores ==
    UNION {{[g \in 1..n |-> SummaryGroup(g, f[g][1], f[g][2])] :
              f \in [1..n -> {1, 2} \X GROUP_STATUSES]} : n \in 0..MaxGroups}

\* The reaction handler on its own: a round is matched and summarised and
\* each of its two groups has had its messages up to some phase, its members
\* having answered or not.
ReactionPhases == {2, 3, 4}

ReactionGroup(g, phase, status) ==
    [round |-> 1,
     userIds |-> <<2 * g - 1, 2 * g>>,
     status |-> status,
     channel |-> DmChannel(<<2 * g - 1, 2 * g>>),
     initialMessageTimestamp |-> Timestamp(2, g),
     reminderMessageTimestamp |->
         IF phase >= 3 THEN Timestamp(3, g) ELSE NULL,
     finalMessageTimestamp |->
         IF phase >= 4 THEN Timestamp(4, g) ELSE NULL]

ReactionStores ==
    {[g \in 1..2 |-> ReactionGroup(g, f[g][1], f[g][2])] :
        f \in [1..2 -> ReactionPhases \X GROUP_STATUSES]}

ReactionInit ==
    /\ now = 1
    /\ rounds = <<[NewRound(1, 0, 1, 0, 1, 1) EXCEPT
                      !.matchingCompleted = TRUE,
                      !.summaryMessageTimestamp = Timestamp(5, 1)]>>
    /\ groups \in ReactionStores
    /\ pc = "idle"
    /\ jobIdx = 0
    /\ jobPc = "idle"
    /\ roundQueue = <<>>
    /\ curRound = NULL
    /\ groupQueue = <<>>
    /\ errored = FALSE
    /\ faults = 0
    /\ attempted = <<>>
    /\ results = <<>>
    /\ tickLog = <<>>
    /\ skipped = {}
    /\ failedDispatch = {}
    /\ clock = 0
    /\ timerStart = 0
    /\ timerInterval = 1
    /\ TimerIdle
    /\ CacheLoaded
    /\ PairIdle
    /\ CmdIdle
    /\ EvtIdle
    /\ UtilIdle

(***************************************************************************)
(* util/formatting.ts: parseDuration.  A string is the sequence of its     *)
(* characters.                                                             *)
(***************************************************************************)
DigitChars == <<"0", "1", "2", "3", "4", "5", "6", "7", "8", "9">>
UnitChars == <<"w", "d", "h", "m", "s">>
UnitNames == <<"weeks", "days", "hours", "minutes", "seconds">>

IsDigit(c) == \E k \in DOMAIN DigitChars : DigitChars[k] = c

DigitValue(c) == (CHOOSE k \in DOMAIN DigitChars : DigitChars[k] = c) - 1

\* parseInt(value, 10) of a string of digits.
RECURSIVE parseInt(_)
parseInt(value) ==
    IF value = <<>> THEN 0
    ELSE 10 * parseInt(SubSeq(value, 1, Len(value) - 1))
             + DigitValue(value[Len(value)])

\* The value of a named group that took no part in the match (undefined): a
\* group that took part holds at least one digit.
Unmatched == <<>>

\* Variant: the pattern has no $ anchor.
AnyPosition(str, i) == TRUE

\* $: the match ends at the end of the string.
AtEnd(str, i) == i = Len(str) + 1

\* The matches of the pattern's optional groups k, k + 1, ... from position
\* i on, each as the sequence of the digits captured by the groups,
\* Unmatched for a group that matched nothing.  ((\d+)w)? matches one or more digits
\* followed by the unit, or nothing.
RECURSIVE MatchFrom(_, _, _)
MatchFrom(str, i, k) ==
    IF k > Len(UnitChars)
    THEN IF AtEnd(str, i) THEN {<<>>} ELSE {}
    ELSE LET taken ==
                 UNION {{<<SubSeq(str, i, i + n - 1)>> \o rest :
                            rest \in MatchFrom(str, i + n + 1, k + 1)} :
                        n \in {m \in 1..(Len(str) - i) :
                                 /\ \A q \in i..(i + m - 1) : IsDigit(str[q])
                                 /\ str[i + m] = UnitChars[k]}}
             skipped_ == {<<Unmatched>> \o rest :
                            rest \in MatchFrom(str, i, k + 1)}
         IN  taken \cup skipped_

\* RegExp.exec: the groups of the match, or null.
DurationPatternExec(str) ==
    LET found == MatchFrom(str, 1, 1)
    IN  IF found = {} THEN NULL ELSE CHOOSE groups_ \in found : TRUE

parseDuration(duration) ==
    IF Len(duration) = 0
    THEN [ok |-> FALSE, error |-> "duration string cannot be empty"]
    ELSE IF MatchFrom(duration, 1, 1) = {}
    THEN [ok |-> FALSE,
          error |-> "duration string does not match expected format"]
    ELSE LET match == DurationPatternExec(duration)
         IN  [ok |-> TRUE,
              value |-> [u \in Range(UnitNames) |->
                  LET k == CHOOSE j \in DOMAIN UnitNames : UnitNames[j] = u
                  IN  IF match[k] = Unmatched THEN parseInt(<<"0">>)
                      ELSE parseInt(match[k])]]

\* The arguments given to parseDuration: every string of at most MaxLen of
\* these characters, and every string made of a number for each unit of some
\* of the units in order.
DurationChars == {"0", "1", "5", "w", "d", "h", "m", "s", "q"}

RECURSIVE StringsOf(_)
StringsOf(len) ==
    IF len = 0 THEN {<<>>}
    ELSE LET shorter == StringsOf(len - 1)
         IN  shorter \cup {Append(str, c) : str \in {t \in shorter :
                                Len(t) = len - 1}, c \in DurationChars}

RECURSIVE UnitStrings(_)
UnitStrings(k) ==
    IF k > Len(UnitChars) THEN {<<>>}
    ELSE LET rest == UnitStrings(k + 1)
         IN  rest \cup {number \o <<UnitChars[k]>> \o str :
                          number \in {<<"5">>, <<"1", "2">>}, str \in rest}

DurationInputs == StringsOf(MaxLen) \cup UnitStrings(1)

ParseInit ==
    /\ SchedInit
    /\ clock = 0
    /\ timerStart = 0
    /\ timerInterval = 1
    /\ TimerIdle
    /\ CacheLoaded
    /\ PairIdle
    /\ CmdIdle
    /\ EvtIdle
    /\ durationInput \in DurationInputs
    /\ parsed = FALSE
    /\ durationResult = [ok |-> FALSE, error |-> "none"]
    /\ RxIdle

CallParseDuration ==
    /\ ~parsed
    /\ parsed' = TRUE
    /\ durationResult' = parseDuration(durationInput)
    /\ UNCHANGED <<schedVars, timerVars, cfgVars, durationInput>>
    /\ UNCHANGED pairVars
    /\ UNCHANGED cmdVars
    /\ UNCHANGED evtVars
    /\ UNCHANGED rxVars

ParseNext == CallParseDuration

ParseSpec == ParseInit /\ [][ParseNext]_vars

(***************************************************************************)
(* Slack wrappers: addReaction and addReactions.                           *)
(***************************************************************************)
ADD_REACTION_EXIT_EARLY_ERRORS ==
    {"bad_timestamp", "channel_not_found", "is_archived",
     "message_not_found", "not_reactable", "thread_locked",
     "too_many_reactions"}

\* What reactions.add can answer through catchWrapper: ok, an error of the
\* exit-early set, another error, a response with ok false and no error
\* field; or the call rejects with something that is no response, which
\* catchWrapper throws again.
Undefined == "undefined"        \* a field the response does not have

ReactionResponses ==
    {[ok |-> TRUE, error |-> Undefined],
     [ok |-> FALSE, error |-> "message_not_found"],
     [ok |-> FALSE, error |-> "too_many_reactions"],
     [ok |-> FALSE, error |-> "already_reacted"],
     [ok |-> FALSE, error |-> Undefined]}

\* addReaction: Ok, or Err with `response.error ?? "unknown error"`.
addReaction(response) ==
    IF ~response.ok
    THEN [ok |-> FALSE,
          error |-> IF response.error = Undefined THEN "unknown error"
                    ELSE response.error]
    ELSE [ok |-> TRUE, error |-> Undefined]

\* Variant: the loop is left at the first error.
ExitsOnAnyError(error) == TRUE

ExitsEarly(error) == error \in ADD_REACTION_EXIT_EARLY_ERRORS

RECURSIVE ReactionLists(_)
ReactionLists(len) ==
    IF len = 0 THEN {<<>>}
    ELSE LET shorter == ReactionLists(len - 1)
         IN  shorter \cup {Append(list, reaction) :
                              list \in {t \in shorter : Len(t) = len - 1},
                              reaction \in DOMAIN REACTION_TO_GROUP_STATUS}

RxInit ==
    /\ SchedInit
    /\ clock = 0
    /\ timerStart = 0
    /\ timerInterval = 1
    /\ TimerIdle
    /\ CacheLoaded
    /\ PairIdle
    /\ CmdIdle
    /\ EvtIdle
    /\ durationInput = <<>>
    /\ parsed = FALSE
    /\ durationResult = [ok |-> FALSE, error |-> "none"]
    /\ rxInput \in ReactionLists(MaxReactions)
    /\ rxAttempts = <<>>
    /\ rxLines = <<>>
    /\ rxReturn = "idle"

\* The value addReactions returns when its loop is over.
ReturnOf(lines) == IF Len(lines) = 0 THEN "ok" ELSE "err"

\* addReactions is called: with no reaction it returns at once, otherwise it
\* calls addReaction for the first one and awaits it.
AddReactionsCall ==
    /\ rxReturn = "idle"
    /\ rxReturn' = IF rxInput = <<>> THEN ReturnOf(rxLines) ELSE "running"
    /\ UNCHANGED <<rxInput, rxAttempts, rxLines>>
    /\ UNCHANGED <<schedVars, timerVars, cfgVars, parseVars>>
    /\ UNCHANGED pairVars
    /\ UNCHANGED cmdVars
    /\ UNCHANGED evtVars

\* The awaited addReaction settles: one iteration of the loop, up to the
\* next await or to the return.
AddReactionSettles ==
    /\ rxReturn = "running"
    /\ LET reaction == rxInput[Len(rxAttempts) + 1]
           last == Len(rxAttempts) + 1 = Len(rxInput)
       IN  \/ \* reactions.add rejects with no response object
              /\ rxAttempts' = Append(rxAttempts,
                                   [reaction |-> reaction, ok |-> FALSE,
                                    error |-> "thrown"])
              /\ rxReturn' = "threw"
              /\ UNCHANGED rxLines
           \/ \E response \in ReactionResponses :
                LET result == addReaction(response)
                    lines == IF result.ok THEN rxLines
                             ELSE Append(rxLines, result.error)
                    break == ~result.ok /\ ExitsEarly(result.error)
                IN  /\ rxAttempts' = Append(rxAttempts,
                                         [reaction |-> reaction,
                                          ok |-> result.ok,
                                          error |-> result.error])
                    /\ rxLines' = lines
                    /\ rxReturn' = IF break \/ last THEN ReturnOf(lines)
                                   ELSE "running"
    /\ UNCHANGED rxInput
    /\ UNCHANGED <<schedVars, timerVars, cfgVars, parseVars>>
    /\ UNCHANGED pairVars
    /\ UNCHANGED cmdVars
    /\ UNCHANGED evtVars

RxNext ==
    \/ AddReactionsCall
    \/ AddReactionSettles

RxSpec == RxInit /\ [][RxNext]_vars

\* Matching on its own: channel 1 has had a round, whose two groups have
\* had their messages up to some phase, and its next round is due for
\* matching when the runner is about to call MatchingJob.run.
HistoryInit ==
    /\ now = 1
    /\ rounds = <<[NewRound(1, 0, 1, 0, 1, 1) EXCEPT
                      !.matchingCompleted = TRUE],
                  NewRound(1, 1, 1, 0, 1, 1)>>
    /\ groups \in ReactionStores
    /\ pc = "jobs"
    /\ jobIdx = 1
    /\ jobPc = "start"
    /\ roundQueue = <<>>
    /\ curRound = NULL
    /\ groupQueue = <<>>
    /\ errored = FALSE
    /\ faults = 0
    /\ attempted = <<allJobs[1]>>
    /\ results = <<>>
    /\ tickLog = <<>>
    /\ skipped = {}
    /\ failedDispatch = {}
    /\ clock = 0
    /\ timerStart = 0
    /\ timerInterval = 1
    /\ TimerIdle
    /\ CacheLoaded
    /\ PairIdle
    /\ CmdIdle
    /\ EvtIdle
    /\ UtilIdle

HistoryNext ==
    \/ MatchingQuery
    \/ MatchingCreateGroups

HistorySpec == HistoryInit /\ [][HistoryNext]_vars

SummaryInit ==
    /\ now = 1
    /\ rounds = [k \in 1..2 |->
                   [NewRound(k, 0, 1, 0, 1, 1) EXCEPT !.matchingCompleted = TRUE]]
    /\ groups \in SummaryStores
    /\ pc = "jobs"
    /\ jobIdx = 5
    /\ jobPc = "start"
    /\ roundQueue = <<>>
    /\ curRound = NULL
    /\ groupQueue = <<>>
    /\ errored = FALSE
    /\ faults = 0
    /\ attempted = allJobs
    /\ results = <<"ok", "ok", "ok", "ok">>
    /\ tickLog = <<>>
    /\ skipped = {}
    /\ failedDispatch = {}
    /\ clock = 0
    /\ timerStart = 0
    /\ timerInterval = 1
    /\ TimerIdle
    /\ CacheLoaded
    /\ PairIdle
    /\ CmdIdle
    /\ EvtIdle
    /\ UtilIdle

ReactionNext == ReactionEvent

ReactionSpec == ReactionInit /\ [][ReactionNext]_vars

SummaryNext ==
    \/ SummaryQuery
    \/ SummarySend
    \/ EndTick

SummarySpec == SummaryInit /\ [][SummaryNext]_vars

\* The shell's round commands on their own.
CommandNext ==
    \/ RoundSchedule
    \/ RoundRepeat
    \/ CmdClock

CommandSpec == Init /\ [][CommandNext]_vars

\* makeGroups on its own: the users of a channel, the groups of earlier
\* rounds, and one call.
UserLists == {[i \in 1..n |-> i] : n \in 0..MaxUsers}
PastGroups ==
    {[userIds |-> ids] :
        ids \in {<<1, 2, 3>>, <<1, 4, 5>>, <<2, 4>>, <<3, 4>>, <<2, 5>>,
                 <<3, 5>>}}

PairInit ==
    /\ SchedInit
    /\ clock = 0
    /\ timerStart = 0
    /\ timerInterval = 1
    /\ TimerIdle
    /\ CacheLoaded
    /\ matchUsers \in UserLists
    /\ matchHistory \in SUBSET PastGroups
    /\ matchCalled = FALSE
    /\ matchResult = <<>>
    /\ CmdIdle
    /\ EvtIdle
    /\ UtilIdle

CallMakeGroups ==
    /\ ~matchCalled
    /\ \E result \in makeGroups(matchUsers, matchHistory) :
         matchResult' = result
    /\ matchCalled' = TRUE
    /\ UNCHANGED <<schedVars, timerVars, cfgVars, matchUsers, matchHistory>>
    /\ UNCHANGED cmdVars
    /\ UNCHANGED evtVars
    /\ UNCHANGED utilVars

PairNext == CallMakeGroups

PairSpec == PairInit /\ [][PairNext]_vars

(***************************************************************************)
(* Properties of the configuration cache and of the runner's reload.       *)
(***************************************************************************)
\* C14: between two invalidations at most one load is started, however many
\* get() calls are made, and every get() returns the promise of that load.
C14_SingleFlight ==
    /\ \A i, j \in DOMAIN loads : loads[i].epoch = loads[j].epoch => i = j
    /\ loads[lastGet.promise].epoch = lastGet.epoch
    /\ lastGet.promise = loadingPromise

\* A get() call made after a reload found the load in flight and joined it.
C14_Witness == reloads >= 1 /\ lastGet.found = "pending"

\* C15: a load that failed leaves the cache empty, so that the next get()
\* starts a new load: the cache never holds a rejected promise.
C15_FailedLoadLeavesCacheEmpty ==
    loadingPromise /= NULL => loads[loadingPromise].status /= "failed"

\* C16: reload() drops the promise the cache held, sets the runner's
\* reloadPending and starts a fresh load in the same step; no get() returns a
\* promise made before the last invalidation.
C16_ReloadInvalidates ==
    [][reloads' /= reloads =>
          /\ reloadPending'
          /\ loads' = Append(loads, [status |-> "pending", value |-> NULL,
                                     epoch |-> reloads'])
          /\ loadingPromise' = Len(loads')
          /\ lastGet' = [promise |-> Len(loads'), epoch |-> reloads',
                         found |-> "none"]
          /\ \A i \in DOMAIN loads : loads[i].epoch < reloads']_vars

\* reload() was called while the load of the previous reload was in flight,
\* and a get() made after it joined the fresh load.
C16_Witness ==
    /\ reloads = 2
    /\ \E i \in DOMAIN loads :
         loads[i].epoch = 1 /\ loads[i].status = "pending"
    /\ lastGet.epoch = 2
    /\ lastGet.found /= "none"

\* C17: once a load has succeeded, a get() is never answered with the
\* failure of a later reload.
C17_StaleConfigServed ==
    lastGet.found = "failed" =>
        ~\E i \in 1..(lastGet.promise - 1) : loads[i].status = "ok"

\* C18: the runner outlives a reload, and when it waits on its timer with no
\* reload pending, the timer has the interval of the current configuration.
C18_TimerFollowsReload ==
    /\ pc /= "crashed"
    /\ (/\ pc = "idle"
        /\ ~reloadPending
        /\ loads[loadingPromise].status = "ok")
       => timerInterval = loads[loadingPromise].value

\* C19: firstRun is resolved by the end of a tick that attempted every job,
\* the runner does not reach its timer wait without resolving it, and it
\* stays resolved.
C19_FirstRunAfterAllJobs ==
    [][/\ firstRunResolved => firstRunResolved'
       /\ (~firstRunResolved /\ firstRunResolved') =>
              /\ pc = "ending"
              /\ attempted = allJobs
              /\ Len(results) = Len(allJobs)
       /\ (pc /= "idle" /\ pc' /= "jobs" /\ pc' /= "ending") =>
              firstRunResolved']_vars

\* The first tick is over with a reload pending at its end: firstRun is
\* resolved while the runner is still in reload(), before its timer wait.
C19_Witness ==
    /\ firstRunResolved
    /\ pc = "reloading"
    /\ reloads = 1

\* The fields of the runner's IntervalTimer.
RunnerTimer == <<timerInterval, timerStart, waitCount, createdAt>>

C35_FailedReloadNotFatal ==
    (reloads >= 1 /\ \E i \in DOMAIN loads : loads[i].status = "failed") =>
        pc /= "crashed"

\* C36: once reloads have stopped and the configuration in the cache is
\* loaded, the timer of a runner that is still running eventually has, and
\* keeps, the interval of that configuration.
C36_NoReloadLost ==
    <>[]((pc /= "crashed" /\ loads[loadingPromise].status = "ok") =>
            timerInterval = loads[loadingPromise].value)

(***************************************************************************)
(* Properties of makeGroups.                                               *)
(***************************************************************************)
GroupSizes == {Len(matchResult[k]) : k \in DOMAIN matchResult}

\* C20: for at least four distinct participants, whatever the history and
\* the random draws, the groups made are pairwise disjoint, cover exactly
\* the participants, have two or three members each, and there is exactly
\* one group of three when the count is odd and none when it is even.
C20_GroupsPartition ==
    (matchCalled /\ Len(matchUsers) >= 4) =>
        /\ \A a, b \in DOMAIN matchResult :
              a /= b => Range(matchResult[a]) \cap Range(matchResult[b]) = {}
        /\ \A k \in DOMAIN matchResult :
              Cardinality(Range(matchResult[k])) = Len(matchResult[k])
        /\ UNION {Range(matchResult[k]) : k \in DOMAIN matchResult}
              = Range(matchUsers)
        /\ GroupSizes \subseteq {2, 3}
        /\ Cardinality({k \in DOMAIN matchResult : Len(matchResult[k]) = 3})
              = Len(matchUsers) % 2

\* An odd number of participants, some of whom were grouped before, and a
\* result with a group of three.
C20_Witness ==
    /\ matchCalled
    /\ Len(matchUsers) = 5
    /\ Cardinality(matchHistory) = 2
    /\ 3 \in GroupSizes

\* C21 as stated: for 0, 1, 2 and 3 participants makeGroups returns exactly
\* one group, whose members are the participants.
C21_OneGroupUpToThree ==
    (matchCalled /\ Len(matchUsers) <= 3) =>
        /\ Len(matchResult) = 1
        /\ Range(matchResult[1]) = Range(matchUsers)

\* C21 amended: for 1, 2 and 3 participants makeGroups returns exactly one
\* group, whose members are the participants; for no participant it returns
\* no group.
C21_OneGroupFromOneToThree ==
    /\ (matchCalled /\ Len(matchUsers) \in 1..3) =>
          /\ Len(matchResult) = 1
          /\ Range(matchResult[1]) = Range(matchUsers)
    /\ (matchCalled /\ Len(matchUsers) = 0) => matchResult = <<>>

\* makeGroups was called with three participants who were all grouped
\* together before.
C21_Witness ==
    /\ matchCalled
    /\ Len(matchUsers) = 3
    /\ [userIds |-> <<1, 2, 3>>] \in matchHistory

(***************************************************************************)
(* Further properties of the scheduler.                                    *)
(***************************************************************************)
\* A channel whose members are the bot at most.
NoEligible(channel) ==
    \A members \in MemberChoices(channel) : Range(members) \subseteq {BOT_USER_ID}

\* The step is a createGroups call on round r that returned Ok.
Matched(r) ==
    /\ tickLog' /= tickLog
    /\ tickLog' /= <<>>
    /\ tickLog'[Len(tickLog')].job = 1
    /\ tickLog'[Len(tickLog')].item = r
    /\ tickLog'[Len(tickLog')].ok

\* C22: when createGroups succeeds on a round whose channel has no eligible
\* participant, no group is created and matchingCompleted becomes true; a
\* round with matchingCompleted true stays so and is not selected by the
\* matching query.
C22_EmptyChannelCompletes ==
    /\ [][\A r \in DOMAIN rounds :
            (NoEligible(rounds[r].channel) /\ Matched(r)) =>
                /\ GroupsOf(r)' = {}
                /\ rounds'[r].matchingCompleted]_vars
    /\ [][\A r \in DOMAIN rounds :
            rounds[r].matchingCompleted => rounds'[r].matchingCompleted]_vars
    /\ [](\A r \in DOMAIN rounds :
            (NoEligible(rounds[r].channel) /\ rounds[r].matchingCompleted) =>
                /\ r \notin Range(RoundsToStart)
                /\ Range(roundQueue) \cap {r} /= {} => jobIdx /= 1)

\* A round of a channel with the bot only was matched with no group, and a
\* later matching job has run past its start without selecting it.
C22_Witness ==
    /\ pc = "jobs" /\ jobIdx = 2 /\ jobPc = "start"
    /\ \E r \in DOMAIN rounds :
         /\ NoEligible(rounds[r].channel)
         /\ rounds[r].matchingCompleted
         /\ rounds[r].matchingScheduledFor <= now
         /\ GroupsOf(r) = {}
         /\ ~Logged(1, r)

(***************************************************************************)
(* Further properties of makeGroups.                                       *)
(***************************************************************************)
\* Every pair of the participants was grouped together before.
FullHistory ==
    \A a, b \in Range(matchUsers) :
        a /= b => <<a, b>> \in PrevPairs(matchHistory)

\* C23: given a history with every pair of the (four or more) participants,
\* makeGroups returns, after its 20 passes and whatever the random draws, and
\* what it returns is a partition of the participants: disjoint groups that
\* cover them all.  Pairs of the history may remain.
C23_FullHistoryPartition ==
    (Len(matchUsers) >= 4 /\ FullHistory) =>
        /\ ~matchCalled => makeGroups(matchUsers, matchHistory) /= {}
        /\ matchCalled =>
              /\ \A a, b \in DOMAIN matchResult :
                    a /= b =>
                      Range(matchResult[a]) \cap Range(matchResult[b]) = {}
              /\ UNION {Range(matchResult[k]) : k \in DOMAIN matchResult}
                    = Range(matchUsers)
              /\ \A k \in DOMAIN matchResult :
                    \E a, b \in Range(matchResult[k]) :
                        a /= b /\ <<a, b>> \in PrevPairs(matchHistory)

\* Five participants, every pair of whom was grouped before, were grouped.
C23_Witness ==
    /\ matchCalled
    /\ Len(matchUsers) = 5
    /\ FullHistory

(***************************************************************************)
(* Properties of the summary message.                                      *)
(***************************************************************************)
\* The summary job has just dispatched the summary of round r.
Summarized(r) ==
    /\ tickLog' /= tickLog
    /\ tickLog' /= <<>>
    /\ tickLog'[Len(tickLog')].job = 5
    /\ tickLog'[Len(tickLog')].item = r

\* The groups of round r whose status is one of `statuses`.
Having(r, statuses) ==
    Cardinality({g \in GroupsOf(r) : groups[g].status \in statuses})

\* C24: the text dispatched for a round says "the one group met" or "the one
\* group did not meet" when the round has one group, and otherwise "<met> of
\* the <total> groups met", where met counts the groups with status met or
\* scheduled and total counts all the groups of the round.
C24_SummaryCounts ==
    [][\A r \in DOMAIN rounds :
         Summarized(r) =>
           LET met == Having(r, {"met", "scheduled"})
               total == Cardinality(GroupsOf(r))
               text == tickLog'[Len(tickLog')].status
           IN  /\ Len(text) >= 3
               /\ text[1] = "In the last round of muffins, "
               /\ text[Len(text)] = "."
               /\ IF total = 1
                  THEN /\ Len(text) = 3
                       /\ text[2] = IF met = 1 THEN "the one group met"
                                    ELSE "the one group did not meet"
                  ELSE /\ Len(text) = 6
                       /\ text[2] = Decimal(met)
                       /\ text[3] = " of the "
                       /\ text[4] = Decimal(total)
                       /\ text[5] = " groups met"]_vars

\* A round with three groups, one met, one scheduled, one that did not meet,
\* was summarized as "2 of the 3 groups met".
C24_Witness ==
    \E i \in DOMAIN tickLog :
        /\ tickLog[i].job = 5
        /\ tickLog[i].ok
        /\ tickLog[i].status = <<"In the last round of muffins, ", "2",
                                 " of the ", "3", " groups met", ".">>
        /\ {groups[g].status : g \in GroupsOf(tickLog[i].item)} =
               {"met", "scheduled", "did_not_meet"}

(***************************************************************************)
(* Properties of the round commands.                                       *)
(***************************************************************************)
\* The round the last command created.
Created == rounds[Len(rounds)]

GatesUnset(round) ==
    /\ round.matchingCompleted = FALSE
    /\ round.allInitialMessagesSent = FALSE
    /\ round.allReminderMessagesSent = FALSE
    /\ round.allFinalMessagesSent = FALSE
    /\ round.summaryMessageTimestamp = NULL

\* C25: a round scheduled with start T has matching at T and each message at
\* T plus its delay, the delay being the argument given or else 0.5, 1.0 and
\* 16/14 of the duration, and no gate set; a 14-day round with no delay
\* given has its messages at T + 7 d, T + 14 d and T + 16 d.
C25_ScheduledInstants ==
    (lastCmd.cmd = "round_schedule" /\ lastCmd.ok) =>
        LET T == lastCmd.start
            d == lastCmd.durationSec
            given == lastCmd.delays
            reminder == Created.reminderMessageScheduledFor - T
            final == Created.finalMessageScheduledFor - T
            summary == Created.summaryMessageScheduledFor - T
        IN  /\ Created.channel = lastCmd.channel
            /\ Created.matchingScheduledFor = T
            /\ IF given[1] = ABSENT THEN 2 * reminder = d
               ELSE reminder = given[1]
            /\ IF given[2] = ABSENT THEN final = d ELSE final = given[2]
            /\ IF given[3] = ABSENT THEN 14 * summary = 16 * d
               ELSE summary = given[3]
            /\ GatesUnset(Created)
            /\ (d = 14 * 86400 /\ given = <<ABSENT, ABSENT, ABSENT>>) =>
                  /\ reminder = 7 * 86400
                  /\ final = 14 * 86400
                  /\ summary = 16 * 86400

\* A 14-day round was scheduled with no delay given.
C25_Witness ==
    /\ lastCmd.cmd = "round_schedule"
    /\ lastCmd.ok
    /\ lastCmd.durationSec = 14 * 86400
    /\ lastCmd.delays = <<ABSENT, ABSENT, ABSENT>>

\* C26: in every stored round the four instants are in order: matching,
\* reminder, final, summary.
C26_PhasesInOrder ==
    \A r \in DOMAIN rounds :
        /\ rounds[r].matchingScheduledFor
              <= rounds[r].reminderMessageScheduledFor
        /\ rounds[r].reminderMessageScheduledFor
              <= rounds[r].finalMessageScheduledFor
        /\ rounds[r].finalMessageScheduledFor
              <= rounds[r].summaryMessageScheduledFor

\* The rounds of the channel that existed before the last command.
Before(channel) ==
    {q \in 1..(Len(rounds) - 1) : rounds[q].channel = channel}

\* C27: the round a successful round_repeat creates is the round of the
\* channel with the greatest matchingScheduledFor, each of its four instants
\* moved by that round's durationSec, with the same durationSec and no gate
\* set.
C27_RepeatShifts ==
    (lastCmd.cmd = "round_repeat" /\ lastCmd.ok) =>
        \E p \in Before(lastCmd.channel) :
            LET prev == rounds[p]
            IN  /\ \A q \in Before(lastCmd.channel) :
                      rounds[q].matchingScheduledFor
                        <= prev.matchingScheduledFor
                /\ Created.channel = lastCmd.channel
                /\ Created.durationSec = prev.durationSec
                /\ Created.matchingScheduledFor
                      = prev.matchingScheduledFor + prev.durationSec
                /\ Created.reminderMessageScheduledFor
                      = prev.reminderMessageScheduledFor + prev.durationSec
                /\ Created.finalMessageScheduledFor
                      = prev.finalMessageScheduledFor + prev.durationSec
                /\ Created.summaryMessageScheduledFor
                      = prev.summaryMessageScheduledFor + prev.durationSec
                /\ GatesUnset(Created)

\* A channel's round was repeated when the channel had two rounds, the one
\* created first starting later than the other.
C27_Witness ==
    /\ lastCmd.cmd = "round_repeat"
    /\ lastCmd.ok
    /\ \E p, q \in Before(lastCmd.channel) :
         /\ p < q
         /\ rounds[p].matchingScheduledFor > rounds[q].matchingScheduledFor

\* C28: round_schedule with a start earlier than now, round_repeat in a
\* channel with no round and round_repeat whose shifted start is earlier
\* than now return an error, and a command that returns an error leaves the
\* rounds as they were.
C28_RejectedNotPersisted ==
    [][cmdCount' /= cmdCount =>
         LET c == lastCmd'
             none == \A r \in DOMAIN rounds : rounds[r].channel /= c.channel
         IN  /\ (c.cmd = "round_schedule" /\ c.start < now) => ~c.ok
             /\ (c.cmd = "round_repeat" /\ none) => ~c.ok
             /\ (/\ c.cmd = "round_repeat"
                 /\ c.prev /= NULL
                 /\ rounds[c.prev].matchingScheduledFor
                      + rounds[c.prev].durationSec < now) => ~c.ok
             /\ ~c.ok => rounds' = rounds]_vars

\* round_repeat was refused because the repeated round would have started
\* already.
C28_Witness ==
    /\ lastCmd.cmd = "round_repeat"
    /\ ~lastCmd.ok
    /\ lastCmd.prev /= NULL
    /\ rounds /= <<>>

\* A phase gate is kept over a step when, once set, it holds the same value
\* after the step.
GateKept(before, after) == before /= NULL => after = before

GroupGates ==
    {"channel", "initialMessageTimestamp", "reminderMessageTimestamp",
     "finalMessageTimestamp"}

\* C30: over ticks and reaction events, a round's matchingCompleted, once
\* true, stays true, and its summaryMessageTimestamp and a group's channel
\* and initial, reminder and final message timestamps, once set, keep their
\* value: no step clears a gate or stores a different value in it.
C30_GatesWriteOnce ==
    [][/\ \A r \in DOMAIN rounds :
            /\ r \in DOMAIN rounds'
            /\ rounds[r].matchingCompleted => rounds'[r].matchingCompleted
            /\ GateKept(rounds[r].summaryMessageTimestamp,
                        rounds'[r].summaryMessageTimestamp)
       /\ \A g \in DOMAIN groups :
            /\ g \in DOMAIN groups'
            /\ \A gate \in GroupGates :
                  GateKept(groups[g][gate], groups'[g][gate])]_vars

\* A later tick runs while a round's summary is posted, one of its groups
\* has its three messages and has answered the reaction menu.
C30_Witness ==
    /\ pc = "jobs"
    /\ \E r \in DOMAIN rounds :
         /\ rounds[r].matchingCompleted
         /\ rounds[r].summaryMessageTimestamp /= NULL
    /\ \E g \in DOMAIN groups :
         /\ \A gate \in GroupGates : groups[g][gate] /= NULL
         /\ groups[g].status /= "unknown"

\* The status the reaction menu gives a reaction, and the groups whose
\* reminder or final message an event names.
MenuStatus ==
    [white_check_mark |-> "met", calendar |-> "scheduled",
     x |-> "did_not_meet"]

MenuGroups(e) ==
    {g \in DOMAIN groups :
        /\ groups[g].channel = e.channel
        /\ \/ groups[g].reminderMessageTimestamp = e.timestamp
           \/ groups[g].finalMessageTimestamp = e.timestamp}

\* C29: a reaction event of one of the three menu reactions on a message that
\* is the reminder or final message of a group in the event's channel, when
\* the store answers, stores the reaction's status (met, scheduled or
\* did_not_meet) in such a group, changes nothing else and calls send once;
\* any other event changes no group and calls send zero times.
C29_ReactionHandled ==
    [][LET e == lastReaction'
       IN  IF e.reaction \in DOMAIN MenuStatus /\ MenuGroups(e) /= {}
           THEN \/ /\ e.outcome \in {"find_throws", "save_throws"}
                   /\ e.sent = 0
                   /\ groups' = groups
                \/ /\ e.outcome = "replied"
                   /\ e.sent = 1
                   /\ e.group \in MenuGroups(e)
                   /\ groups' = [groups EXCEPT
                          ![e.group].status = MenuStatus[e.reaction]]
                   /\ groups'[e.group].status
                          \in {"met", "scheduled", "did_not_meet"}
           ELSE /\ e.sent = 0
                /\ e.group = NULL
                /\ groups' = groups]_vars

\* A member of a group answered the menu of the group's final message with x:
\* the group is saved as did_not_meet and the reply was sent.
C29_Witness ==
    /\ lastReaction.outcome = "replied"
    /\ lastReaction.reaction = "x"
    /\ lastReaction.sent = 1
    /\ groups[lastReaction.group].status = "did_not_meet"
    /\ groups[lastReaction.group].finalMessageTimestamp
          = lastReaction.timestamp

\* The groups created by the rounds of a channel other than round r.
EarlierGroups(r) ==
    {g \in DOMAIN groups :
        /\ groups[g].round /= r
        /\ rounds[groups[g].round].channel = rounds[r].channel}

\* C31: when createGroups is about to run for a round, the history it reads
\* for the round's channel holds the groups of the channel's earlier rounds
\* (there are fewer than 50), so that every pair of such a group is in the
\* previously-paired set.
C31_HistoryOfChannel ==
    (pc = "jobs" /\ jobIdx = 1 /\ jobPc = "rounds" /\ roundQueue /= <<>>) =>
        LET r == Head(roundQueue)
            history == getPreviousPairings(rounds[r].channel)
        IN  \A g \in EarlierGroups(r) :
               /\ groups[g] \in history
               /\ \A a, b \in Range(groups[g].userIds) :
                     a /= b => <<a, b>> \in PrevPairs(history)

\* A duration string as the command's help describes it: digits and unit
\* letters only, ending with a unit letter, every unit letter right after a
\* digit, and the unit letters in the order w, d, h, m, s.
IsUnit(c) == \E k \in DOMAIN UnitChars : UnitChars[k] = c

UnitRank(c) == CHOOSE k \in DOMAIN UnitChars : UnitChars[k] = c

WellFormedDuration(str) ==
    /\ \A i \in DOMAIN str : IsDigit(str[i]) \/ IsUnit(str[i])
    /\ IsUnit(str[Len(str)])
    /\ \A i \in DOMAIN str : IsUnit(str[i]) => i > 1 /\ IsDigit(str[i - 1])
    /\ \A i, j \in DOMAIN str :
          (i < j /\ IsUnit(str[i]) /\ IsUnit(str[j])) =>
              UnitRank(str[i]) < UnitRank(str[j])

RECURSIVE Pow10(_)
Pow10(n) == IF n = 0 THEN 1 ELSE 10 * Pow10(n - 1)

RECURSIVE PlaceValue(_, _, _)
PlaceValue(str, first, last) ==
    IF first > last THEN 0
    ELSE DigitValue(str[first]) * Pow10(last - first)
             + PlaceValue(str, first + 1, last)

\* The number written before unit k in a well-formed string, 0 when the
\* unit is absent.
GivenNumber(str, k) ==
    IF \A i \in DOMAIN str : str[i] /= UnitChars[k] THEN 0
    ELSE LET at == CHOOSE i \in DOMAIN str : str[i] = UnitChars[k]
             first == CHOOSE p \in 1..(at - 1) :
                        /\ \A q \in p..(at - 1) : IsDigit(str[q])
                        /\ p > 1 => ~IsDigit(str[p - 1])
         IN  PlaceValue(str, first, at - 1)

\* C32: parseDuration returns Err("duration string cannot be empty") for the
\* empty string, Err("duration string does not match expected format") for
\* a non-empty string that is not well formed, and otherwise Ok with the
\* number written before each unit, 0 for an absent unit.
C32_ParseDuration ==
    parsed =>
        IF durationInput = <<>>
        THEN /\ ~durationResult.ok
             /\ durationResult.error = "duration string cannot be empty"
        ELSE IF ~WellFormedDuration(durationInput)
        THEN /\ ~durationResult.ok
             /\ durationResult.error
                   = "duration string does not match expected format"
        ELSE /\ durationResult.ok
             /\ \A k \in DOMAIN UnitNames :
                   durationResult.value[UnitNames[k]]
                       = GivenNumber(durationInput, k)

\* 5w12d5m12s was parsed.
C32_Witness ==
    /\ parsed
    /\ durationInput
          = <<"5", "w", "1", "2", "d", "5", "m", "1", "2", "s">>
    /\ durationResult.ok
    /\ durationResult.value["weeks"] = 5
    /\ durationResult.value["days"] = 12
    /\ durationResult.value["hours"] = 0
    /\ durationResult.value["minutes"] = 5
    /\ durationResult.value["seconds"] = 12

\* C33: while the initial-message job works on a due round, every group of
\* the round that lacks an initial message identifier, whatever its status,
\* is selected: it waits in the job's queue or has been attempted.
C33_InitialSelectsAnyStatus ==
    (pc = "jobs" /\ jobIdx = 2 /\ curRound /= NULL) =>
        \A g \in GroupsOf(curRound) :
            groups[g].initialMessageTimestamp = NULL =>
                \/ Logged(2, g)
                \/ \E i \in DOMAIN groupQueue : groupQueue[i].id = g

MessageFields ==
    {"initialMessageTimestamp", "reminderMessageTimestamp",
     "finalMessageTimestamp"}

\* C37: a step that stores a message identifier in a group changes that one
\* identifier, and the channel if it was unset, and leaves the status the
\* store holds, including one written by a reaction after the job fetched
\* the group; a step that changes a group's status changes nothing else of
\* it; no step changes a group's round or members.
C37_DisjointFields ==
    [][\A g \in DOMAIN groups :
          LET old == groups[g]
              new == groups'[g]
              written == {f \in MessageFields : new[f] /= old[f]}
          IN  /\ new.userIds = old.userIds
              /\ new.round = old.round
              /\ written /= {} =>
                    /\ Cardinality(written) = 1
                    /\ new.status = old.status
                    /\ old.channel /= NULL => new.channel = old.channel
              /\ new.status /= old.status =>
                    /\ written = {}
                    /\ new.channel = old.channel]_vars

\* The final job saved the identifier of a group it had fetched as unknown
\* and whose members answered the reminder's menu in between: the answer
\* is still the group's status.
C37_Witness ==
    /\ tickLog /= <<>>
    /\ LET e == tickLog[Len(tickLog)]
       IN  /\ e.job = 4
           /\ e.ok
           /\ e.status = "unknown"
           /\ groups[e.item].finalMessageTimestamp /= NULL
           /\ groups[e.item].status \in {"met", "did_not_meet"}
           /\ pc = "jobs" /\ jobIdx = 4

\* C38: when the reminder or final job dispatches a message to a group, the
\* status the store holds for the group at that moment is unknown or
\* scheduled.
C38_NoDispatchToResolved ==
    [][\A g \in DOMAIN groups :
          (/\ pc = "jobs" /\ jobIdx \in {3, 4} /\ jobPc = "groups"
           /\ groupQueue /= <<>>
           /\ Head(groupQueue).id = g
           /\ groupQueue' /= groupQueue)
          => groups[g].status \in Eligible]_vars

\* The errors after which the reactions.add documentation says no further
\* reaction can be added to the message.
StopErrors ==
    {"bad_timestamp", "channel_not_found", "is_archived",
     "message_not_found", "not_reactable", "thread_locked",
     "too_many_reactions"}

FailedAttempts == SelectSeq(rxAttempts, LAMBDA a : ~a.ok)

\* C39: addReactions attempts the reactions in the order given; an attempt
\* is followed by another one unless it failed with a stop error or was the
\* last; when addReactions returns, it returns Ok exactly when every attempt
\* succeeded, and otherwise its lines are the errors of the failed attempts,
\* one each, in order.
C39_AddReactions ==
    /\ Len(rxAttempts) <= Len(rxInput)
    /\ \A i \in DOMAIN rxAttempts : rxAttempts[i].reaction = rxInput[i]
    /\ \A i \in 1..(Len(rxAttempts) - 1) :
          rxAttempts[i].ok \/ rxAttempts[i].error \notin StopErrors
    /\ rxReturn \in {"ok", "err"} =>
          /\ \/ Len(rxAttempts) = Len(rxInput)
             \/ /\ ~rxAttempts[Len(rxAttempts)].ok
                /\ rxAttempts[Len(rxAttempts)].error \in StopErrors
          /\ rxReturn = "ok" <=> \A i \in DOMAIN rxAttempts : rxAttempts[i].ok
          /\ Len(rxLines) = Len(FailedAttempts)
          /\ \A i \in DOMAIN rxLines : rxLines[i] = FailedAttempts[i].error

\* Of three reactions the first was added, the second failed with an error
\* that is no stop error, the third failed with a stop error: Err with two
\* lines.
C39_Witness ==
    /\ rxReturn = "err"
    /\ Len(rxAttempts) = 3
    /\ rxAttempts[1].ok
    /\ rxAttempts[2].error = "already_reacted"
    /\ rxAttempts[3].error = "too_many_reactions"
    /\ Len(rxLines) = 2

\* C40: every round the summary job dispatches a summary for has
\* matchingCompleted true.
C40_SummaryOnlyWhenMatched ==
    \A i \in DOMAIN tickLog :
        tickLog[i].job = 5 => rounds[tickLog[i].item].matchingCompleted

====
